---- MODULE Spec2Model ----
(***************************************************************************)
(* A model of the laptop recommendation backend:                            *)
(*   - RAGService.search and its filters (services/rag_service.py)          *)
(*   - GeminiProvider.parse_response_text and its cascade                   *)
(*     (services/gemini_provider.py)                                        *)
(*   - LLMService.merge_recommendations (services/llm_service.py)           *)
(*   - the two turn handlers post_message / websocket_stream                *)
(*     (routers/chat.py)                                                    *)
(*                                                                          *)
(* Texts are sequences of tokens.  Adjacent tokens are separated by one     *)
(* blank.  A token is a word of prose, a piece of white space, a brace, or  *)
(* the serialisation of a structured payload:                               *)
(*   "ws"   white space that both str.strip() and json.loads skip           *)
(*   "ff"   white space that str.strip() removes and json.loads rejects     *)
(*          (form feed, vertical tab, non-breaking space)                   *)
(*   "{" "}" a lone brace                                                   *)
(*   "obj"  the well-formed JSON serialisation of the text's payload        *)
(*   "frag" a serialisation of the payload that starts with '{', ends with  *)
(*          '}' and is not valid JSON (a trailing comma, a missing bracket) *)
(*   "?"    a question mark                                                 *)
(*   "rec"  a recommendation keyword ("recommend", "suggest", ...)          *)
(*   "deny" a hard denial clause ("no matches", "don't have any", ...)      *)
(*   "soft" a soft denial clause ("over your budget", "closest option is")  *)
(*   "neg"  a negative tone word ("sorry", "unfortunately", ...)            *)
(*   any other string is a lower-case word.                                 *)
(* Scores are integers: hundredths of the floating point score.            *)
(***************************************************************************)
EXTENDS Integers, Sequences, FiniteSets, TLC

VARIABLES
    pc,                 \* position of the operation under way
    raw_text,           \* parse_response_text: the raw model text
    context_products,   \* parse_response_text / merge: the retrieved items
    llm_result,         \* the LLMResult (parse output, merge input)
    enriched,           \* merge_recommendations: the returned list
    query,              \* search: the query text (the turn's message)
    user_preferences,   \* search: the caller's preferences
    top_k,              \* search: the caller's top_k
    semantic,           \* the index's similarity to the query, per catalogue item
    retrieval_result,   \* search: the RetrievalResult
    endpoint,           \* turn: "post" (post_message) or "ws" (websocket_stream)
    history,            \* turn: the session's logged messages
    stream,             \* turn: what stream_response still has to yield
    events,             \* turn: the events sent over the websocket
    closed,             \* turn: how the websocket ended ("open" while it has not)
    response,           \* turn: the HTTP response of post_message
    metrics,            \* turn: what the turn recorded in the metrics service
    failure,            \* turn: the internal error raised in the turn, if any
    embed_calls,        \* turn, embedding: calls of the embedding backend so far
    catalogue,          \* index: the skus of self.products, in catalogue order
    offline_mode,       \* index: RAGService._offline_mode of the running process
    live_dim,           \* index: the dimension of the live backend's vectors
    embedding_dim,      \* index: RAGService._embedding_dim (0: None)
    normalized_embeddings, \* index: RAGService._normalized_embeddings (<<>>: None)
    embeddings,         \* index: the vectors _build_index has embedded so far
    store,              \* index: the two persisted artifacts (<<>>: no such file)
    app_state,          \* index: whether app.state.rag_service is set
    embedding_lock,     \* index: RAGService._embedding_lock
    builds,             \* index: what each build of the running process persisted
    reading,            \* index: what the last search read of the index
    attempts,           \* embedding: failed attempts of the running _embed_text call
    embedding_model_name, \* embedding: RAGService._embedding_model_name
    backend,            \* stream: what the backend stream still holds, and how it ends
    queue,              \* stream: the asyncio.Queue between worker and consumer
    worker,             \* stream: where _worker is
    consumer,           \* stream: where the consumer loop of stream_response is
    received,           \* stream: what the consumer has yielded
    model_name,         \* provider: GeminiProvider._model_name
    handles,            \* provider: the model behind _model and _streaming_model
    downgrades,         \* provider: how often each handle was set to the fallback
    calls,              \* provider: the generate and stream calls in flight
    sessions,           \* session: MetricsService._sessions, the messages per session
    turns,              \* session: the turns under way, each with what it holds
    loop                \* session: the turn whose coroutine runs on the event loop (0: none)

parse_vars == <<raw_text, context_products, llm_result, enriched>>

search_vars == <<query, user_preferences, top_k, semantic, retrieval_result>>

turn_vars ==
    <<endpoint, history, stream, events, closed, response, metrics, failure, embed_calls>>

index_vars ==
    <<catalogue, offline_mode, live_dim, embedding_dim, normalized_embeddings, embeddings,
      store, app_state, embedding_lock, builds, reading>>

embed_vars == <<attempts, embedding_model_name>>

stream_vars == <<backend, queue, worker, consumer, received>>

provider_vars == <<model_name, handles, downgrades, calls>>

session_vars == <<sessions, turns, loop>>

late_vars == <<stream_vars, provider_vars, session_vars>>

rest_vars == <<embed_vars, late_vars>>

vars == <<pc, parse_vars, search_vars, turn_vars, index_vars, rest_vars>>

None == "None"

\* ------------------------------------------------------------------ bounds
MaxTextLen == 3     \* tokens in a plain raw text
MaxRecs == 2        \* entries in a payload's recommendation list
MaxCtx == 3         \* context items handed to the interpreter
MaxMergeRecs == 3   \* recommendations of a result handed to the merge
MaxTopK == 3        \* the caller's top_k
MaxQueryLen == 2    \* tokens in a query
MaxBuilds == 2      \* calls of _build_index in one process
MaxChunks == 3      \* chunks of one backend stream
MaxCalls == 2       \* generate and stream calls in flight at a time

\* --------------------------------------------------------------- sequences
Min(a, b) == IF a < b THEN a ELSE b

Range(s) == {s[i] : i \in 1..Len(s)}

SeqsUpTo(S, n) == UNION {[1..k -> S] : k \in 0..n}

Take(s, n) == SubSeq(s, 1, Min(n, Len(s)))

RECURSIVE Concat(_)
\* the concatenation of a sequence of sequences
Concat(ss) == IF ss = <<>> THEN <<>> ELSE Head(ss) \o Concat(Tail(ss))

\* s occurs in t as a run of adjacent tokens (str.__contains__ on whole words)
IsInfix(s, t) ==
    \E i \in 0..(Len(t) - Len(s)) : SubSeq(t, i + 1, i + Len(s)) = s

\* ---------------------------------------------------------------- catalogue
Product(sku, vendor, family, name, gpu, price, description) ==
    [sku |-> sku, vendor |-> vendor, family |-> family, name |-> name,
     gpu |-> gpu, price |-> price, description |-> description]

Catalogue ==
    << Product("A", "dell", "xps", <<"dell", "xps">>, "rtx4060", 999,
               <<"gaming", "oled">>),
       Product("B", "lenovo", "thinkpad", <<"lenovo", "thinkpad", "laptop">>,
               "iris", 1499, <<"business">>),
       Product("C", "hp", "omen", <<"xps">>, "rtx4070", 1999,
               <<"gaming">>),
       Product("D", "lenovo", "legion", <<"lenovo", "legion">>, "rtx4070", 1500,
               <<"gaming", "oled">>) >>

\* a RetrievedProduct: Product + similarity, matched_keywords, explanation
Retrieved(p, similarity, matched, explanation) ==
    [sku |-> p.sku, vendor |-> p.vendor, family |-> p.family, name |-> p.name,
     gpu |-> p.gpu, price |-> p.price, description |-> p.description,
     similarity |-> similarity, matched_keywords |-> matched,
     explanation |-> explanation]

\* ------------------------------------------------------------- raw texts
\* A raw text: its tokens, and the payload its "obj" and "frag" tokens
\* serialise.  A payload:
\*   reply      [shape: "absent" | "str" | "num", toks]   ("num": a non-zero number)
\*   reasoning  None | "thinking" | "num"
\*   recs       [shape: "absent" | "list" | "num", items]
\*   an item    [isObj, sku, name, rationale, confidence]: sku "" is an
\*              absent or empty sku, "blank" a sku of white space only; name
\*              <<>> and rationale "" are absent; confidence is "none",
\*              "num" (a number) or "bad" (not convertible by float()).
Entry(isObj, sku, name, rationale, confidence) ==
    [isObj |-> isObj, sku |-> sku, name |-> name, rationale |-> rationale,
     confidence |-> confidence]

NoPayload ==
    [reply |-> [shape |-> "absent", toks |-> <<>>], reasoning |-> None,
     recs |-> [shape |-> "absent", items |-> <<>>]]

JsonWhitespace == {"ws"}
StripWhitespace == {"ws", "ff"}
OpenTokens == {"{", "obj", "frag"}      \* tokens whose first character is '{'
CloseTokens == {"}", "obj", "frag"}     \* tokens whose last character is '}'
PayloadTokens == {"obj", "frag"}

RECURSIVE LStrip(_, _)
LStrip(s, W) == IF s # <<>> /\ Head(s) \in W THEN LStrip(Tail(s), W) ELSE s

RECURSIVE RStrip(_, _)
RStrip(s, W) ==
    IF s # <<>> /\ s[Len(s)] \in W THEN RStrip(SubSeq(s, 1, Len(s) - 1), W) ELSE s

\* str.strip()
Strip(s) == RStrip(LStrip(s, StripWhitespace), StripWhitespace)

\* str.find("{"), str.rfind("}"): 0 when there is none (Python's -1)
FindOpen(s) ==
    IF \E i \in 1..Len(s) : s[i] \in OpenTokens
    THEN CHOOSE i \in 1..Len(s) :
            s[i] \in OpenTokens /\ \A j \in 1..(i - 1) : s[j] \notin OpenTokens
    ELSE 0

RFindClose(s) ==
    IF \E i \in 1..Len(s) : s[i] \in CloseTokens
    THEN CHOOSE i \in 1..Len(s) :
            s[i] \in CloseTokens /\ \A j \in (i + 1)..Len(s) : s[j] \notin CloseTokens
    ELSE 0

\* json.loads(s, strict=False): [ok, value].  The text decodes when, white
\* space aside, it is one well-formed object: the serialised payload, or a
\* pair of braces with nothing but white space between them (the empty object).
json_loads(s, payload) ==
    LET core == RStrip(LStrip(s, JsonWhitespace), JsonWhitespace)
    IN  IF core = <<"obj">> THEN [ok |-> TRUE, value |-> payload]
        ELSE IF /\ Len(core) >= 2
                /\ core[1] = "{"
                /\ core[Len(core)] = "}"
                /\ \A i \in 2..(Len(core) - 1) : core[i] \in JsonWhitespace
             THEN [ok |-> TRUE, value |-> NoPayload]
        ELSE [ok |-> FALSE, value |-> NoPayload]

\* the characters of a raw text, its payload tokens written out: the reply's
\* words, and the key "product_recommendations" (which holds the word
\* "recommend") when the payload carries a recommendation list, then the
\* entries' names
RECURSIVE EntryWords(_)
EntryWords(items) ==
    IF items = <<>> THEN <<>>
    ELSE (IF Head(items).isObj THEN Head(items).name ELSE <<>>) \o EntryWords(Tail(items))

PayloadWords(payload) ==
    <<"{">>
    \o (IF payload.reply.shape = "str" THEN payload.reply.toks ELSE <<>>)
    \o (IF payload.recs.shape # "absent" THEN <<"rec">> ELSE <<>>)
    \o (IF payload.recs.shape = "list" THEN EntryWords(payload.recs.items) ELSE <<>>)
    \o <<"}">>

RECURSIVE Characters(_, _)
Characters(s, payload) ==
    IF s = <<>> THEN <<>>
    ELSE (IF Head(s) \in PayloadTokens THEN PayloadWords(payload) ELSE <<Head(s)>>)
         \o Characters(Tail(s), payload)

\* ----------------------------------------------------------- LLM results
LLMProductRecommendation(sku, name, rationale, confidence) ==
    [sku |-> sku, name |-> name, rationale |-> rationale, confidence |-> confidence]

\* status "ok": the call returned; "raise": it raised; "none": it returned None
LLMResult(reply, reasoning, recommendations) ==
    [status |-> "ok", reply |-> reply, reasoning |-> reasoning,
     recommendations |-> recommendations]

Raised == [status |-> "raise", reply |-> <<>>, reasoning |-> None, recommendations |-> <<>>]

NoResult == [status |-> "none", reply |-> <<>>, reasoning |-> None, recommendations |-> <<>>]

\* a lookup that never finds the context item
name_never_resolved(products, sku) == <<>>

\* GeminiProvider._product_name_for_sku: the first context item's name, or None
product_name_for_sku(products, sku) ==
    IF \E i \in 1..Len(products) : products[i].sku = sku
    THEN products[CHOOSE i \in 1..Len(products) :
                    /\ products[i].sku = sku
                    /\ \A j \in 1..(i - 1) : products[j].sku # sku].name
    ELSE <<>>

\* GeminiProvider._reply_indicates_no_results
reply_indicates_no_results(reply) ==
    IF reply = <<>> THEN FALSE
    ELSE \/ "deny" \in Range(reply)
         \/ "soft" \in Range(reply) /\ {"neg", "deny"} \cap Range(reply) # {}

\* GeminiProvider._fallback_result: the first two context items, unguarded
fallback_rationale(product) ==
    IF product.explanation # None THEN product.explanation
    ELSE "Recommended based on similarity to your request."

\* a rationale that ignores the item's prior explanation
generic_sentence_only(product) == "Top match based on your requirements."

top_match_rationale(product) ==
    IF product.explanation # None THEN product.explanation
    ELSE "Top match based on your requirements."

fallback_result(toks, payload, products) ==
    LET default_products == Take(products, 2)
    IN  LLMResult(Characters(Strip(toks), payload), None,
                  [i \in 1..Len(default_products) |->
                      LLMProductRecommendation(default_products[i].sku,
                                               default_products[i].name,
                                               fallback_rationale(default_products[i]),
                                               None)])

\* GeminiProvider._heuristic_parse: the regular expressions find the reply
\* (a quoted string after "reply"), the reasoning, and every entry that has
\* a quoted non-empty sku, a quoted non-empty name and a quoted rationale,
\* once per serialised payload in the text
RECURSIVE heuristic_items(_)
heuristic_items(items) ==
    IF items = <<>> THEN <<>>
    ELSE LET item == Head(items)
         IN  (IF item.isObj /\ item.sku # "" /\ item.name # <<>> /\ item.rationale # ""
              THEN <<item>> ELSE <<>>) \o heuristic_items(Tail(items))

RECURSIVE heuristic_matches(_, _)
heuristic_matches(toks, payload) ==
    IF toks = <<>> THEN <<>>
    ELSE (IF Head(toks) \in PayloadTokens /\ payload.recs.shape = "list"
          THEN heuristic_items(payload.recs.items) ELSE <<>>)
         \o heuristic_matches(Tail(toks), payload)

StripSku(sku) == IF sku = " B " THEN "B" ELSE sku

heuristic_parse(toks, payload, products) ==
    LET serialised == Range(toks) \cap PayloadTokens # {}
        reply_match == serialised /\ payload.reply.shape = "str"
        reasoning_match == serialised /\ payload.reasoning = "thinking"
        found == heuristic_matches(toks, payload)
        items == SelectSeq(found, LAMBDA item : StripSku(item.sku) # "")
    IN  IF ~reply_match /\ items = <<>> THEN NoResult
        ELSE LLMResult(IF reply_match THEN Strip(payload.reply.toks) ELSE <<>>,
                       IF reasoning_match THEN payload.reasoning ELSE None,
                       [i \in 1..Len(items) |->
                           LLMProductRecommendation(StripSku(items[i].sku),
                                                    items[i].name,
                                                    items[i].rationale, None)])

\* GeminiProvider._parse_plain_text_response
StopWords == {"laptop", "notebook", "the", "and"}

Significant(part) == Len(part) > 3 /\ part \notin StopWords

is_mentioned(product, text_lower) ==
    LET significant_parts == SelectSeq(product.name, Significant)
    IN  \/ IsInfix(product.name, text_lower)
        \/ /\ Len(significant_parts) >= 2
           /\ significant_parts[1] \in Range(text_lower)
           /\ significant_parts[2] \in Range(text_lower)
        \/ /\ Len(significant_parts) = 1
           /\ significant_parts[1] \in Range(text_lower)

parse_plain_text_response(toks, payload, products) ==
    LET reply == Characters(Strip(toks), payload)
        is_question == "?" \in Range(reply)
        is_recommending == "rec" \in Range(reply)
        text_lower == Characters(toks, payload)
        mentioned == SelectSeq(products, LAMBDA product : is_mentioned(product, text_lower))
        shown == Take(mentioned, 2)
        fallback_products == Take(products, 2)
    IN  IF is_question THEN LLMResult(reply, "Asking for clarification", <<>>)
        ELSE IF ~is_recommending THEN LLMResult(reply, None, <<>>)
        ELSE IF mentioned # <<>>
             THEN LLMResult(reply, "Products extracted from conversational response",
                            [i \in 1..Len(shown) |->
                                LLMProductRecommendation(shown[i].sku, shown[i].name,
                                                         "Recommended in conversation", None)])
        ELSE LLMResult(reply, "Fallback recommendations",
                       [i \in 1..Len(fallback_products) |->
                           LLMProductRecommendation(fallback_products[i].sku,
                                                    fallback_products[i].name,
                                                    "Recommended based on your requirements",
                                                    None)])

\* parse_response_text, lines 217-236: one recommendation per entry that
\* has a non-empty sku
RECURSIVE payload_recommendations(_, _)
payload_recommendations(items, products) ==
    IF items = <<>> THEN <<>>
    ELSE LET item == Head(items)
             sku == StripSku(item.sku)
             resolved == product_name_for_sku(products, sku)
             name == IF item.name # <<>> THEN item.name
                     ELSE IF resolved # <<>> THEN resolved ELSE <<sku>>
             confidence == IF item.confidence = "num" THEN "num" ELSE None
         IN  (IF sku = "" THEN <<>>
              ELSE <<LLMProductRecommendation(sku, name, item.rationale, confidence)>>)
             \o payload_recommendations(Tail(items), products)

\* parse_response_text, lines 207-261: the decoded payload to a result.
\* .strip() on a reply that is a number, len() of a reasoning or of a
\* recommendation list that is a number, and .get() on an entry that is no
\* object raise (AttributeError, TypeError); nothing catches them.
decode_payload(payload, products) ==
    LET reply == IF payload.reply.shape = "str" THEN Strip(payload.reply.toks) ELSE <<>>
        reasoning == payload.reasoning
        recommendations_payload ==
            IF payload.recs.shape = "list" THEN payload.recs.items ELSE <<>>
        recommendations == payload_recommendations(recommendations_payload, products)
        reply_is_question == "?" \in Range(reply)
        reply_blocks_recommendations == reply_indicates_no_results(reply)
        default_products == Take(products, 2)
    IN  IF \/ payload.reply.shape = "num"
           \/ payload.reasoning = "num"
           \/ payload.recs.shape = "num"
           \/ \E i \in 1..Len(recommendations_payload) : ~recommendations_payload[i].isObj
        THEN Raised
        ELSE IF /\ recommendations = <<>>
                /\ products # <<>>
                /\ reply # <<>>
                /\ ~reply_is_question
                /\ ~reply_blocks_recommendations
             THEN LLMResult(reply, reasoning,
                            [i \in 1..Len(default_products) |->
                                LLMProductRecommendation(default_products[i].sku,
                                                         default_products[i].name,
                                                         top_match_rationale(default_products[i]),
                                                         None)])
        ELSE LLMResult(reply, reasoning, recommendations)

\* the stage of the cascade a raw text ends in
is_json(toks) ==
    LET raw_text_stripped == Strip(toks)
    IN  /\ raw_text_stripped # <<>>
        /\ raw_text_stripped[1] \in OpenTokens
        /\ raw_text_stripped[Len(raw_text_stripped)] \in CloseTokens

salvage(toks, payload) ==
    LET start == FindOpen(toks)
        end == RFindClose(toks)
    IN  IF start # 0 /\ end # 0
        THEN json_loads(SubSeq(toks, start, end), payload)
        ELSE [ok |-> FALSE, value |-> NoPayload]

stage(text) ==
    IF text.toks = <<>> THEN "empty"
    ELSE IF ~is_json(text.toks) THEN "plain"
    ELSE IF json_loads(text.toks, text.payload).ok THEN "strict"
    ELSE IF salvage(text.toks, text.payload).ok THEN "salvage"
    ELSE IF heuristic_parse(text.toks, text.payload, <<>>).status = "ok" THEN "heuristic"
    ELSE "fallback"

\* GeminiProvider.parse_response_text
parse_response_text(text, products) ==
    LET toks == text.toks
        payload == text.payload
        heuristic == heuristic_parse(toks, payload, products)
    IN  CASE stage(text) = "empty" -> LLMResult(<<>>, None, <<>>)
          [] stage(text) = "plain" -> parse_plain_text_response(toks, payload, products)
          [] stage(text) = "strict" ->
                decode_payload(json_loads(toks, payload).value, products)
          [] stage(text) = "salvage" ->
                decode_payload(salvage(toks, payload).value, products)
          [] stage(text) = "heuristic" -> heuristic
          [] OTHER -> fallback_result(toks, payload, products)

\* ----------------------------------------------------------------- merge
\* LLMService.merge_recommendations.  retrieved_by_sku keeps, per sku, the
\* last retrieved item; the loop writes each rationale into that item and
\* appends the item itself, so an item appended twice shows the rationale
\* written last.
by_sku(products, sku) ==
    products[CHOOSE i \in 1..Len(products) :
                /\ products[i].sku = sku
                /\ \A j \in (i + 1)..Len(products) : products[j].sku # sku]

last_rationale(recommendations, sku) ==
    recommendations[CHOOSE i \in 1..Len(recommendations) :
                /\ recommendations[i].sku = sku
                /\ \A j \in (i + 1)..Len(recommendations) :
                        recommendations[j].sku # sku].rationale

\* a merge that attaches a placeholder for a recommendation that was not
\* retrieved instead of skipping it
merge_with_placeholders(retrieved_products, result) ==
    [i \in 1..Len(result.recommendations) |->
        IF result.recommendations[i].sku \in
                {retrieved_products[k].sku : k \in 1..Len(retrieved_products)}
        THEN [by_sku(retrieved_products, result.recommendations[i].sku) EXCEPT
                !.explanation = result.recommendations[i].rationale]
        ELSE Retrieved(Product(result.recommendations[i].sku, "", "",
                               result.recommendations[i].name, "", 0, <<>>),
                       0, {}, result.recommendations[i].rationale)]

merge_recommendations(retrieved_products, result) ==
    LET found == SelectSeq(result.recommendations,
                           LAMBDA recommendation :
                               recommendation.sku \in {retrieved_products[i].sku :
                                                        i \in 1..Len(retrieved_products)})
    IN  IF result.recommendations = <<>> THEN <<>>
        ELSE [i \in 1..Len(found) |->
                [by_sku(retrieved_products, found[i].sku) EXCEPT
                    !.explanation = last_rationale(found, found[i].sku)]]

\* the retrieved items after the merge wrote into them
merged_in_place(retrieved_products, result) ==
    LET out == merge_recommendations(retrieved_products, result)
    IN  [i \in 1..Len(retrieved_products) |->
            IF \E k \in 1..Len(out) :
                    /\ out[k].sku = retrieved_products[i].sku
                    /\ \A j \in (i + 1)..Len(retrieved_products) :
                            retrieved_products[j].sku # retrieved_products[i].sku
            THEN [retrieved_products[i] EXCEPT
                    !.explanation = last_rationale(result.recommendations,
                                                   retrieved_products[i].sku)]
            ELSE retrieved_products[i]]

\* ---------------------------------------------------------------- search
\* A preference value: [kind, value].  kind "absent": the key is not in the
\* dictionary; "none": null; "blank": an empty string; "num": the number
\* value; "bad": a string float() rejects; "str": the string text.
Pref(kind, value, text) == [kind |-> kind, value |-> value, text |-> text]

Absent == Pref("absent", 0, "")

\* str.lower()
Lower(text) ==
    CASE text = "Lenovo" -> "lenovo"
      [] text = "RTX" -> "rtx"
      [] OTHER -> text

\* a in b (str.__contains__) for attribute values
Contains(b, a) ==
    \/ a = b
    \/ <<a, b>> \in {<<"rtx", "rtx4060">>, <<"rtx", "rtx4070">>, <<"leg", "legion">>}

\* "12.5".strip() != "" for a supplied value
has_value(pref) == pref.kind \in {"num", "bad", "str"}

truthy(pref) == pref.kind \in {"bad", "str"} \/ (pref.kind = "num" /\ pref.value # 0)

NoFilters ==
    [raised |-> FALSE,
     price_range |-> [active |-> FALSE, low |-> 0, bounded |-> FALSE, high |-> 0],
     vendor |-> "", gpu |-> "", family |-> ""]

\* RAGService._parse_filters; float() of a malformed price raises ValueError
parse_filters(preferences) ==
    LET min_value == preferences.price_min
        max_value == preferences.price_max
        has_min == has_value(min_value)
        has_max == has_value(max_value)
    IN  IF (has_min /\ min_value.kind # "num") \/ (has_max /\ max_value.kind # "num")
        THEN [NoFilters EXCEPT !.raised = TRUE]
        ELSE [raised |-> FALSE,
              price_range |->
                  IF has_min \/ has_max
                  THEN [active |-> TRUE,
                        low |-> IF has_min THEN min_value.value ELSE 0,
                        bounded |-> has_max,
                        high |-> IF has_max THEN max_value.value ELSE 0]
                  ELSE NoFilters.price_range,
              vendor |-> IF truthy(preferences.vendor)
                         THEN Lower(preferences.vendor.text) ELSE "",
              gpu |-> IF truthy(preferences.gpu) THEN Lower(preferences.gpu.text) ELSE "",
              family |-> IF truthy(preferences.family)
                         THEN Lower(preferences.family.text) ELSE ""]

\* RAGService._passes_filters
passes_filters(product, filters) ==
    /\ filters.price_range.active =>
          /\ ~(product.price < filters.price_range.low)
          /\ ~(filters.price_range.bounded /\ product.price > filters.price_range.high)
    /\ filters.vendor # "" => Contains(Lower(product.vendor), filters.vendor)
    /\ filters.gpu # "" => Contains(Lower(product.gpu), filters.gpu)
    /\ filters.family # "" => Contains(Lower(product.family), filters.family)

\* RAGService._extract_keywords: the tokens of name, description and gpu
\* that are longer than two characters
extract_keywords(product) ==
    {token \in Range(product.name) \cup Range(product.description) \cup {product.gpu} :
        Len(token) > 2}

\* RAGService._extract_terms: white space separates, it is no term
extract_terms(text) == {token \in Range(text) : token \notin StripWhitespace}

\* RAGService._keyword_score: [score, matched]
keyword_score(text, product) ==
    LET matched_tokens == extract_terms(text) \cap extract_keywords(product)
    IN  [score |-> Min(Cardinality(matched_tokens) * 5, 20), matched |-> matched_tokens]

RagTopK == 5

EnableHybridSearch == TRUE

combined_score(text, idx, similarities) ==
    similarities[idx]
    + (IF EnableHybridSearch THEN keyword_score(text, Catalogue[idx]).score ELSE 0)

\* list.sort(key=score, reverse=True): descending, equal scores in the order
\* they had.  The place of the element at index i of the scored list.
\* a sort that puts equal scores in the reverse of the order they had
sorted_place_reversing_ties(scored, i) ==
    1 + Cardinality({j \in 1..Len(scored) : scored[j].similarity > scored[i].similarity})
      + Cardinality({j \in (i + 1)..Len(scored) : scored[j].similarity = scored[i].similarity})

sorted_place(scored, i) ==
    1 + Cardinality({j \in 1..Len(scored) : scored[j].similarity > scored[i].similarity})
      + Cardinality({j \in 1..(i - 1) : scored[j].similarity = scored[i].similarity})

sort_descending(scored) ==
    [k \in 1..Len(scored) |->
        scored[CHOOSE i \in 1..Len(scored) : sorted_place(scored, i) = k]]

RaisedRetrieval == [status |-> "raise", products |-> <<>>, applied_filters |-> NoFilters]

\* RAGService.search; embedded: whether _embed_text returned a vector (it
\* raises once its attempts are used up)
search(text, preferences, k, similarities, embedded) ==
    LET filters == parse_filters(preferences)
        limit == IF k # 0 THEN k ELSE RagTopK
        passing == SelectSeq([i \in 1..Len(Catalogue) |-> i],
                             LAMBDA idx : passes_filters(Catalogue[idx], filters))
        scored_products ==
            [n \in 1..Len(passing) |->
                Retrieved(Catalogue[passing[n]],
                          combined_score(text, passing[n], similarities),
                          IF EnableHybridSearch
                          THEN keyword_score(text, Catalogue[passing[n]]).matched ELSE {},
                          None)]
    IN  IF Strip(text) = <<>> THEN RaisedRetrieval
        ELSE IF filters.raised THEN RaisedRetrieval
        ELSE IF ~embedded THEN RaisedRetrieval
        ELSE [status |-> "ok",
              products |-> Take(sort_descending(scored_products), limit),
              applied_filters |-> filters]

\* the calls of _embed_text one search makes: line 310 is reached once
\* the query is not blank and the filters were parsed
embedding_calls(text, preferences) ==
    IF Strip(text) = <<>> \/ parse_filters(preferences).raised THEN 0 ELSE 1

\* ------------------------------------------------------------------ turn
\* chat._extract_price_from_query.  The first pattern is a ceiling word
\* followed by a number, the second a number followed by an optional "or"
\* and a word that starts with less, under, below or max.  re.search takes
\* the leftmost match of a pattern; "," is a number-shaped token with no
\* digit, which float() rejects, and then the next pattern is tried.
CeilingWords == {"under", "below", "max", "maximum", "up to"}

TrailingWords == {"less", "under", "below", "max", "maximum"}

NumberTokens == {"1500", "2000", ","}

Amount(token) == CASE token = "1500" -> 1500 [] token = "2000" -> 2000 [] OTHER -> 0

Minimum(S) == CHOOSE x \in S : \A y \in S : x <= y

NoPrice == [found |-> FALSE, value |-> 0]

float_of(price_str) ==
    IF price_str = "," THEN NoPrice ELSE [found |-> TRUE, value |-> Amount(price_str)]

extract_price_from_query(text) ==
    LET first == {i \in 1..(Len(text) - 1) :
                    text[i] \in CeilingWords /\ text[i + 1] \in NumberTokens}
        second == {i \in 1..(Len(text) - 1) :
                    /\ text[i] \in NumberTokens
                    /\ \/ text[i + 1] \in TrailingWords
                       \/ /\ i + 2 <= Len(text)
                          /\ text[i + 1] = "or"
                          /\ text[i + 2] \in TrailingWords}
        one == IF first # {} THEN float_of(text[Minimum(first) + 1]) ELSE NoPrice
        two == IF second # {} THEN float_of(text[Minimum(second)]) ELSE NoPrice
    IN  IF one.found THEN one ELSE two

\* chat._enrich_preferences_with_budget: the text is consulted only when the
\* key price_max is not in the dictionary, and a price of 0 is not stored
enrich_preferences_with_budget(text, preferences) ==
    LET max_price == extract_price_from_query(text)
    IN  IF preferences.price_max.kind = "absent" /\ max_price.found /\ max_price.value # 0
        THEN [preferences EXCEPT !.price_max = Pref("num", max_price.value, "")]
        ELSE preferences

\* chat._prepare_user_message / _prepare_assistant_message
prepare_user_message(content) == [role |-> "user", content |-> content]

prepare_assistant_message(reply) == [role |-> "assistant", content |-> reply]

\* GeminiProvider._offline_response
offline_rationale(product) ==
    IF product.explanation # None THEN product.explanation
    ELSE "High semantic similarity to the query."

offline_reply(products) ==
    IF products = <<>> THEN <<"offline", "w", "?">>
    ELSE <<"offline", "rec">> \o Concat([i \in 1..Min(Len(products), 3) |-> products[i].name])

offline_response(products) ==
    LLMResult(offline_reply(products), "Generated via offline fallback heuristics.",
              [i \in 1..Min(Len(products), 3) |->
                  LLMProductRecommendation(products[i].sku, products[i].name,
                                           offline_rationale(products[i]), None)])

\* GeminiProvider.generate_response.  generation: what the backend did,
\* kind "offline" (no backend), "raise" (_generate_sync raised) or "text"
generate_response(generation, products) ==
    LET parsed == parse_response_text(generation.text, products)
    IN  CASE generation.kind = "offline" -> offline_response(products)
          [] generation.kind = "raise" -> Raised
          [] OTHER ->
                IF parsed.status = "raise" THEN Raised
                ELSE IF Strip(parsed.reply) = <<>> THEN offline_response(products)
                ELSE parsed

\* GeminiProvider.stream_response, as [chunks, ends]: the chunks it yields
\* and whether the end marker follows them.  Offline it yields the offline
\* reply as one chunk; a failure to start the chat yields nothing; a worker
\* that dies while it iterates the backend stream never enqueues the marker.
stream_response(generation, products) ==
    CASE generation.kind = "offline" ->
            [chunks |-> <<offline_reply(products)>>, ends |-> TRUE]
      [] generation.kind = "raise" -> [chunks |-> <<>>, ends |-> TRUE]
      [] OTHER ->
            [chunks |-> [i \in 1..Len(generation.text.toks) |-> <<generation.text.toks[i]>>],
             ends |-> generation.kind = "text"]

NoStream == [chunks |-> <<>>, ends |-> TRUE]

\* the HTTP response of post_message
NoResponse == [status |-> 0, reply |-> <<>>, products |-> <<>>, detail |-> ""]

ChatResponse(reply, products) ==
    [status |-> 200, reply |-> reply, products |-> products, detail |-> ""]

HTTPException(status_code, detail) ==
    [status |-> status_code, reply |-> <<>>, products |-> <<>>, detail |-> detail]

\* an exception that leaves the handler: the server answers 500
InternalServerError == HTTPException(500, "Internal Server Error")

\* the message of the websocket error event: "I ran into an issue finalising
\* that recommendation. Please try again."
ErrorMessage == <<"issue", "try", "again">>

Event(type, text, products) == [type |-> type, text |-> text, products |-> products]

\* what the turn recorded: how often each latency, and the recommended skus
NoMetrics == [retrieval_latency |-> 0, llm_latency |-> 0, recommended |-> <<>>]

recommended_skus(result) ==
    [i \in 1..Len(result.recommendations) |-> result.recommendations[i].sku]

\* ----------------------------------------------------------------- index
\* A vector is [sku, backend, dim]: the item whose text was embedded, the
\* backend that embedded it and the vector's length.  _hash_embed is a
\* function of the text and the dimension, so a digest vector is determined
\* by them; the live backend's vector has the backend's dimension.
HashDim == 768

DefaultEmbeddingModel == "models/embedding-001"

EmbeddingModels == {DefaultEmbeddingModel, "models/custom"}

\* tenacity's stop_after_attempt(5)
StopAfterAttempt == 5

stop_never(attempt_number) == FALSE

stop_after_attempt(attempt_number) == attempt_number >= StopAfterAttempt

LiveDims == {768, 1024}

Vector(sku, producer, dim) == [sku |-> sku, backend |-> producer, dim |-> dim]

hash_embed(sku, dim) == Vector(sku, "digest", dim)

live_embed(sku, dim) == Vector(sku, "live", dim)

\* the product or query text embedded under the name "query"
QueryText == "query"

NoStore == [vectors |-> <<>>, manifest |-> <<>>]

NoReading == [status |-> "none", query |-> Vector("", "", 0), index |-> <<>>, dim |-> 0]

\* RAGService._embed_text, as [ok, vector, dim]: the vector returned and
\* the _embedding_dim left behind.  answered: whether the live backend
\* answered within the attempts; a vector of another length than
\* _embedding_dim raises on every attempt.
embed_text(sku, offline, dim, backend_dim, answered) ==
    LET target_dim == IF dim # 0 THEN dim ELSE HashDim
    IN  IF offline
        THEN [ok |-> TRUE, vector |-> hash_embed(sku, target_dim), dim |-> target_dim]
        ELSE IF answered /\ (dim = 0 \/ dim = backend_dim)
        THEN [ok |-> TRUE, vector |-> live_embed(sku, backend_dim), dim |-> backend_dim]
        ELSE [ok |-> FALSE, vector |-> Vector("", "", 0), dim |-> dim]

\* --------------------------------------------------- inputs of the parser
ProseTokens ==
    {"ws", "ff", "w", "?", "rec", "deny", "{", "}", "dell", "xps", "lenovo", "thinkpad"}

AffixTokens == {"ws", "ff", "w", "?"}

ReplyTexts ==
    { <<>>, <<"ws">>, <<"w">>, <<"w", "?">>, <<"deny">>, <<"soft", "neg">>, <<"soft">> }

ObjectEntries ==
    { Entry(TRUE, "A", <<>>, "why", "none"),
      Entry(TRUE, "A", <<"custom">>, "why", "num"),
      Entry(TRUE, " B ", <<>>, "", "bad"),
      Entry(TRUE, "Z", <<"zed">>, "why", "none"),
      Entry(TRUE, "", <<"custom">>, "why", "none") }

NonObjectEntry == Entry(FALSE, "", <<>>, "", "none")

StringReplies == {[shape |-> "str", toks |-> t] : t \in ReplyTexts}

AbsentReply == [shape |-> "absent", toks |-> <<>>]

\* payloads whose fields have the shapes the prompt asks for
WellShapedPayloads ==
    { [reply |-> r, reasoning |-> None, recs |-> c] :
        r \in StringReplies \cup {AbsentReply},
        c \in {[shape |-> "absent", items |-> <<>>]}
              \cup {[shape |-> "list", items |-> l] : l \in SeqsUpTo(ObjectEntries, MaxRecs)} }
    \cup
    { [reply |-> r, reasoning |-> "thinking", recs |-> [shape |-> "absent", items |-> <<>>]] :
        r \in StringReplies }

\* well-formed objects whose fields have other shapes
MisshapedPayloads ==
    { [reply |-> [shape |-> "num", toks |-> <<>>], reasoning |-> None,
       recs |-> [shape |-> "absent", items |-> <<>>]],
      [reply |-> [shape |-> "str", toks |-> <<"w">>], reasoning |-> "num",
       recs |-> [shape |-> "absent", items |-> <<>>]],
      [reply |-> [shape |-> "str", toks |-> <<"w">>], reasoning |-> None,
       recs |-> [shape |-> "num", items |-> <<>>]] }
    \cup
    { [reply |-> [shape |-> "str", toks |-> <<"w">>], reasoning |-> None,
       recs |-> [shape |-> "list", items |-> l]] :
        l \in {m \in SeqsUpTo(ObjectEntries \cup {NonObjectEntry}, MaxRecs) :
                    NonObjectEntry \in Range(m)} }

Payloads == WellShapedPayloads \cup MisshapedPayloads

PlainTexts ==
    {[toks |-> t, payload |-> NoPayload] : t \in SeqsUpTo(ProseTokens, MaxTextLen)}

StructuredTexts ==
    { [toks |-> pre \o <<core>> \o post, payload |-> p] :
        pre \in SeqsUpTo(AffixTokens, 1), core \in PayloadTokens,
        post \in SeqsUpTo(AffixTokens, 1) \cup {<<"obj">>}, p \in Payloads }

Texts == PlainTexts \cup StructuredTexts

EmptyText == [toks |-> <<>>, payload |-> NoPayload]

\* context items: a prefix of the catalogue in one of two orders; item A
\* carries an explanation from an earlier merge, the others none
ContextOrders == { <<1, 2, 3, 4>>, <<4, 3, 2, 1>> }

PriorExplanation(p) == IF p.sku = "A" THEN "prior" ELSE None

Contexts ==
    { [i \in 1..n |-> Retrieved(Catalogue[o[i]], 0, {}, PriorExplanation(Catalogue[o[i]]))] :
        o \in ContextOrders, n \in 0..Min(MaxCtx, Len(Catalogue)) }

\* ------------------------------------------------------ inputs of search
NoPreferences ==
    [price_min |-> Absent, price_max |-> Absent, vendor |-> Absent, gpu |-> Absent,
     family |-> Absent]

SearchPreferences ==
    { [price_min |-> lo, price_max |-> hi, vendor |-> v, gpu |-> g, family |-> f] :
        lo \in {Absent, Pref("num", 1000, ""), Pref("num", 1499, "")},
        hi \in {Absent, Pref("none", 0, ""), Pref("num", 1499, ""), Pref("num", 1500, ""),
                Pref("bad", 0, "abc")},
        v \in {Absent, Pref("str", 0, "Lenovo")},
        g \in {Absent, Pref("str", 0, "RTX")},
        f \in {Absent, Pref("str", 0, "leg")} }

SearchQueries == SeqsUpTo({"gaming", "oled", "ws"}, MaxQueryLen)

Scores == {40, 45}

Similarities == [1..Len(Catalogue) -> Scores]

NoSimilarities == [i \in 1..Len(Catalogue) |-> 0]

NoRetrieval == [status |-> "none", products |-> <<>>, applied_filters |-> NoFilters]

\* results handed to the merge: any recommendations, retrieved or not
MergeRecommendations ==
    { LLMProductRecommendation("A", <<"dell", "xps">>, "first", None),
      LLMProductRecommendation("A", <<"dell", "xps">>, "second", None),
      LLMProductRecommendation("B", <<"lenovo", "thinkpad", "laptop">>, "first", None),
      LLMProductRecommendation("Z", <<"zed">>, "first", None) }

MergeResults ==
    {LLMResult(<<"w">>, None, r) : r \in SeqsUpTo(MergeRecommendations, MaxMergeRecs)}

\* ------------------------------------------------------ inputs of a turn
TurnMessages ==
    { <<>>, <<"ws">>, <<"gaming">>, <<"gaming", "under", "1500">>, <<"max", "1500">>,
      <<"1500", "or", "less">>, <<"oled", "2000", "maximum">>, <<"under", ",", "gaming">> }

TurnPreferences ==
    { [NoPreferences EXCEPT !.price_max = hi, !.vendor = v] :
        hi \in {Absent, Pref("none", 0, ""), Pref("num", 2000, ""), Pref("bad", 0, "abc")},
        v \in {Absent, Pref("str", 0, "Lenovo")} }

TurnSimilarities ==
    { [i \in 1..Len(Catalogue) |-> IF Catalogue[i].sku = "C" THEN 45 ELSE 40],
      [i \in 1..Len(Catalogue) |-> IF Catalogue[i].sku = "A" THEN 45 ELSE 40] }

TurnTexts ==
    { EmptyText,
      [toks |-> <<"w", "?">>, payload |-> NoPayload],
      [toks |-> <<"rec", "dell", "xps">>, payload |-> NoPayload],
      [toks |-> <<"obj">>,
       payload |-> [reply |-> [shape |-> "str", toks |-> <<"w">>], reasoning |-> None,
                    recs |-> [shape |-> "list",
                              items |-> <<Entry(TRUE, "D", <<>>, "why", "none"),
                                          Entry(TRUE, "C", <<>>, "why", "none")>>]]],
      [toks |-> <<"obj">>,
       payload |-> [reply |-> [shape |-> "num", toks |-> <<>>], reasoning |-> None,
                    recs |-> [shape |-> "absent", items |-> <<>>]]],
      [toks |-> <<"obj">>,
       payload |-> [reply |-> [shape |-> "str", toks |-> <<"ws">>], reasoning |-> None,
                    recs |-> [shape |-> "absent", items |-> <<>>]]] }

Generations ==
    {[kind |-> k, text |-> EmptyText] : k \in {"offline", "raise"}}
    \cup {[kind |-> "text", text |-> t] : t \in TurnTexts}

\* the streaming backend can also die after it produced a text's chunks
StreamGenerations ==
    Generations \cup {[kind |-> "dies", text |-> t] : t \in TurnTexts}

\* ------------------------------------------------------------ idle parts
ParseIdle ==
    /\ raw_text = EmptyText
    /\ context_products = <<>>
    /\ llm_result = NoResult
    /\ enriched = <<>>

SearchIdle ==
    /\ query = <<>>
    /\ user_preferences = NoPreferences
    /\ top_k = 0
    /\ semantic = NoSimilarities
    /\ retrieval_result = NoRetrieval

TurnIdle ==
    /\ endpoint = "none"
    /\ history = <<>>
    /\ stream = NoStream
    /\ events = <<>>
    /\ closed = "open"
    /\ response = NoResponse
    /\ metrics = NoMetrics
    /\ failure = "none"
    /\ embed_calls = 0

EmbedIdle ==
    /\ attempts = 0
    /\ embedding_model_name = DefaultEmbeddingModel

NoBackend == [chunks |-> <<>>, ends |-> TRUE]

StreamIdle ==
    /\ backend = NoBackend
    /\ queue = <<>>
    /\ worker = "none"
    /\ consumer = "none"
    /\ received = <<>>

FallbackModelName == "gemini-2.5-flash"

LlmModels == {"gemini-2.5-pro", FallbackModelName}

NoCall == [kind |-> "none", at |-> "idle", result |-> "none"]

ProviderIdle ==
    /\ model_name = FallbackModelName
    /\ handles = [h \in {"json", "streaming"} |-> FallbackModelName]
    /\ downgrades = [h \in {"json", "streaming"} |-> 0]
    /\ calls = [c \in 1..MaxCalls |-> NoCall]

SessionIds == {"s1", "s2"}

TurnIds == {1, 2}

NoTurn == [pc |-> "idle", session_id |-> "s1", content |-> "", trimmed_history |-> <<>>,
           handed |-> <<>>]

SessionIdle ==
    /\ sessions = [s \in SessionIds |-> <<>>]
    /\ turns = [t \in TurnIds |-> NoTurn]
    /\ loop = 0

RestIdle == EmbedIdle /\ StreamIdle /\ ProviderIdle /\ SessionIdle

IndexIdle ==
    /\ catalogue = <<>>
    /\ offline_mode = TRUE
    /\ live_dim = HashDim
    /\ embedding_dim = 0
    /\ normalized_embeddings = <<>>
    /\ embeddings = <<>>
    /\ store = NoStore
    /\ app_state = "unset"
    /\ embedding_lock = "free"
    /\ builds = <<>>
    /\ reading = NoReading

\* ------------------------------------------------ specification: the parser
InitParse ==
    /\ pc = "parse"
    /\ raw_text \in Texts
    /\ context_products \in Contexts
    /\ llm_result = NoResult
    /\ enriched = <<>>
    /\ SearchIdle
    /\ TurnIdle
    /\ IndexIdle
    /\ RestIdle

Parse ==
    /\ pc = "parse"
    /\ llm_result' = parse_response_text(raw_text, context_products)
    /\ pc' = "parsed"
    /\ UNCHANGED <<raw_text, context_products, enriched, search_vars, turn_vars, index_vars, rest_vars>>

NextParse == Parse

SpecParse == InitParse /\ [][NextParse]_vars

\* ------------------------------------------------- specification: the merge
InitMerge ==
    /\ pc = "merge"
    /\ raw_text = EmptyText
    /\ context_products \in Contexts
    /\ llm_result \in MergeResults
    /\ enriched = <<>>
    /\ SearchIdle
    /\ TurnIdle
    /\ IndexIdle
    /\ RestIdle

Merge ==
    /\ pc = "merge"
    /\ enriched' = merge_recommendations(context_products, llm_result)
    /\ context_products' = merged_in_place(context_products, llm_result)
    /\ pc' = "merged"
    /\ UNCHANGED <<raw_text, llm_result, search_vars, turn_vars, index_vars, rest_vars>>

NextMerge == Merge

SpecMerge == InitMerge /\ [][NextMerge]_vars

\* ------------------------------------------------ specification: the search
InitSearch ==
    /\ pc = "search"
    /\ query \in SearchQueries
    /\ user_preferences \in SearchPreferences
    /\ top_k \in 0..MaxTopK
    /\ semantic \in Similarities
    /\ retrieval_result = NoRetrieval
    /\ ParseIdle
    /\ TurnIdle
    /\ IndexIdle
    /\ RestIdle

Search ==
    /\ pc = "search"
    /\ \E embedded \in BOOLEAN :
          retrieval_result' = search(query, user_preferences, top_k, semantic, embedded)
    /\ pc' = "searched"
    /\ UNCHANGED <<query, user_preferences, top_k, semantic, parse_vars, turn_vars, index_vars, rest_vars>>

NextSearch == Search

SpecSearch == InitSearch /\ [][NextSearch]_vars

\* -------------------------------------------------- specification: a turn
InitTurn ==
    /\ pc = "turn"
    /\ endpoint \in {"post", "ws"}
    /\ query \in TurnMessages
    /\ user_preferences \in TurnPreferences
    /\ top_k = RagTopK
    /\ semantic \in TurnSimilarities
    /\ retrieval_result = NoRetrieval
    /\ ParseIdle
    /\ history = <<>>
    /\ stream = NoStream
    /\ events = <<>>
    /\ closed = "open"
    /\ response = NoResponse
    /\ metrics = NoMetrics
    /\ failure = "none"
    /\ embed_calls = 0
    /\ IndexIdle
    /\ RestIdle

\* chat.post_message, from the request to the response
post_message ==
    /\ pc = "turn"
    /\ endpoint = "post"
    /\ pc' = "done"
    /\ \E embedded \in BOOLEAN, generation \in Generations :
        LET enriched_preferences == enrich_preferences_with_budget(query, user_preferences)
            retrieval == search(query, enriched_preferences, top_k, semantic, embedded)
            result == generate_response(generation, retrieval.products)
            products == merge_recommendations(retrieval.products, result)
        IN  IF Strip(query) = <<>>
            THEN /\ response' = HTTPException(400, "Message must not be empty.")
                 /\ UNCHANGED <<history, retrieval_result, metrics, failure, parse_vars>>
            ELSE IF retrieval.status = "raise"
            THEN /\ history' = Append(history, prepare_user_message(query))
                 /\ failure' = "retrieval"
                 /\ response' = InternalServerError
                 /\ UNCHANGED <<retrieval_result, metrics, parse_vars>>
            ELSE IF result.status = "raise"
            THEN /\ history' = Append(history, prepare_user_message(query))
                 /\ retrieval_result' = retrieval
                 /\ context_products' = retrieval.products
                 /\ metrics' = [metrics EXCEPT !.retrieval_latency = @ + 1]
                 /\ failure' = IF generation.kind = "raise" THEN "generation"
                               ELSE "interpreter"
                 /\ response' = InternalServerError
                 /\ UNCHANGED <<raw_text, llm_result, enriched>>
            ELSE /\ history' = history \o <<prepare_user_message(query),
                                            prepare_assistant_message(result.reply)>>
                 /\ retrieval_result' = retrieval
                 /\ context_products' = merged_in_place(retrieval.products, result)
                 /\ metrics' = [retrieval_latency |-> 1, llm_latency |-> 1,
                                recommended |-> recommended_skus(result)]
                 /\ raw_text' = generation.text
                 /\ llm_result' = result
                 /\ enriched' = products
                 /\ response' = ChatResponse(result.reply, products)
                 /\ UNCHANGED failure
    /\ embed_calls' = embedding_calls(query,
                                       enrich_preferences_with_budget(query, user_preferences))
    /\ UNCHANGED <<endpoint, query, user_preferences, top_k, semantic, stream, events,
                   closed, index_vars, rest_vars>>

\* chat.websocket_stream, from the first payload to the metadata event
websocket_accept ==
    /\ pc = "turn"
    /\ endpoint = "ws"
    /\ \E embedded \in BOOLEAN, generation \in StreamGenerations, connected \in BOOLEAN :
        LET enriched_preferences == enrich_preferences_with_budget(query, user_preferences)
            retrieval == search(query, enriched_preferences, top_k, semantic, embedded)
        IN  IF Strip(query) = <<>>
            THEN /\ closed' = "1008"
                 /\ pc' = "done"
                 /\ UNCHANGED <<history, retrieval_result, context_products, metrics,
                                failure, events, stream, raw_text>>
            ELSE IF retrieval.status = "raise"
            THEN /\ history' = Append(history, prepare_user_message(query))
                 /\ failure' = "retrieval"
                 /\ events' = Append(events, Event("error", ErrorMessage, <<>>))
                 /\ closed' = "1011"
                 /\ pc' = "done"
                 /\ UNCHANGED <<retrieval_result, context_products, metrics, stream,
                                raw_text>>
            ELSE IF ~connected
            THEN /\ history' = Append(history, prepare_user_message(query))
                 /\ retrieval_result' = retrieval
                 /\ context_products' = retrieval.products
                 /\ metrics' = [metrics EXCEPT !.retrieval_latency = @ + 1]
                 /\ closed' = "client"
                 /\ pc' = "done"
                 /\ UNCHANGED <<failure, events, stream, raw_text>>
            ELSE /\ history' = Append(history, prepare_user_message(query))
                 /\ retrieval_result' = retrieval
                 /\ context_products' = retrieval.products
                 /\ metrics' = [metrics EXCEPT !.retrieval_latency = @ + 1]
                 /\ events' = Append(events, Event("metadata", <<>>, <<>>))
                 /\ stream' = stream_response(generation, retrieval.products)
                 /\ raw_text' = [toks |-> <<>>, payload |-> generation.text.payload]
                 /\ pc' = "streaming"
                 /\ UNCHANGED <<failure, closed>>
    /\ embed_calls' = embedding_calls(query,
                                       enrich_preferences_with_budget(query, user_preferences))
    /\ UNCHANGED <<endpoint, query, user_preferences, top_k, semantic, llm_result,
                   enriched, response, index_vars, rest_vars>>

\* a chunk loop that sends each chunk and keeps none for the interpreter
websocket_chunk_not_accumulating ==
    /\ pc = "streaming"
    /\ stream.chunks # <<>>
    /\ \E connected \in BOOLEAN :
        IF connected
        THEN /\ events' = Append(events, Event("chunk", Head(stream.chunks), <<>>))
             /\ stream' = [stream EXCEPT !.chunks = Tail(@)]
             /\ UNCHANGED <<pc, closed, metrics>>
        ELSE /\ metrics' = [metrics EXCEPT !.llm_latency = @ + 1]
             /\ closed' = "client"
             /\ pc' = "done"
             /\ UNCHANGED <<events, stream>>
    /\ UNCHANGED <<raw_text, endpoint, query, user_preferences, top_k, semantic,
                   retrieval_result, context_products, llm_result, enriched, history,
                   response, failure, embed_calls, index_vars, rest_vars>>

\* a chunk loop that goes on when the client is gone
websocket_chunk_ignoring_disconnect ==
    /\ pc = "streaming"
    /\ stream.chunks # <<>>
    /\ \E connected \in BOOLEAN :
        /\ raw_text' = [raw_text EXCEPT !.toks = @ \o Head(stream.chunks)]
        /\ stream' = [stream EXCEPT !.chunks = Tail(@)]
        /\ IF connected
           THEN /\ events' = Append(events, Event("chunk", Head(stream.chunks), <<>>))
                /\ UNCHANGED closed
           ELSE /\ closed' = "client"
                /\ UNCHANGED events
    /\ UNCHANGED <<pc, metrics, endpoint, query, user_preferences, top_k, semantic,
                   retrieval_result, context_products, llm_result, enriched, history,
                   response, failure, embed_calls, index_vars, rest_vars>>

\* chat.websocket_stream, one pass of the chunk loop; a send to a client
\* that is gone raises WebSocketDisconnect, which ends the turn after the
\* finally clause recorded the generation latency
websocket_chunk ==
    /\ pc = "streaming"
    /\ stream.chunks # <<>>
    /\ \E connected \in BOOLEAN :
        IF connected
        THEN /\ raw_text' = [raw_text EXCEPT !.toks = @ \o Head(stream.chunks)]
             /\ events' = Append(events, Event("chunk", Head(stream.chunks), <<>>))
             /\ stream' = [stream EXCEPT !.chunks = Tail(@)]
             /\ UNCHANGED <<pc, closed, metrics>>
        ELSE /\ raw_text' = [raw_text EXCEPT !.toks = @ \o Head(stream.chunks)]
             /\ metrics' = [metrics EXCEPT !.llm_latency = @ + 1]
             /\ closed' = "client"
             /\ pc' = "done"
             /\ UNCHANGED <<events, stream>>
    /\ UNCHANGED <<endpoint, query, user_preferences, top_k, semantic, retrieval_result,
                   context_products, llm_result, enriched, history, response, failure,
                   embed_calls, index_vars, rest_vars>>

\* chat.websocket_stream, from the end of the stream to the close
websocket_complete ==
    /\ pc = "streaming"
    /\ stream.chunks = <<>>
    /\ stream.ends
    /\ pc' = "done"
    /\ \E connected \in BOOLEAN :
        LET result == parse_response_text(raw_text, retrieval_result.products)
            products == merge_recommendations(retrieval_result.products, result)
        IN  IF result.status = "raise"
            THEN /\ metrics' = [metrics EXCEPT !.llm_latency = @ + 1]
                 /\ failure' = "interpreter"
                 /\ events' = Append(events, Event("error", ErrorMessage, <<>>))
                 /\ closed' = "1011"
                 /\ UNCHANGED <<llm_result, enriched, context_products, history>>
            ELSE /\ metrics' = [metrics EXCEPT !.llm_latency = @ + 1,
                                               !.recommended = recommended_skus(result)]
                 /\ llm_result' = result
                 /\ enriched' = products
                 /\ context_products' = merged_in_place(retrieval_result.products, result)
                 /\ history' = Append(history, prepare_assistant_message(result.reply))
                 /\ IF connected
                    THEN /\ events' = Append(events, Event("complete", result.reply, products))
                         /\ closed' = "1000"
                    ELSE /\ closed' = "client"
                         /\ UNCHANGED events
                 /\ UNCHANGED failure
    /\ UNCHANGED <<endpoint, query, user_preferences, top_k, semantic, retrieval_result,
                   raw_text, stream, response, embed_calls, index_vars, rest_vars>>

NextTurn == post_message \/ websocket_accept \/ websocket_chunk \/ websocket_complete

SpecTurn == InitTurn /\ [][NextTurn]_vars

\* ------------------------------------------------ specification: the index
\* The life of the embedding store over several runs of the process: each
\* run loads its catalogue, loads or builds the index and serves searches,
\* and can end at any point, also between the two writes of a build.
Catalogues == { <<"A">>, <<"A", "B">>, <<"B", "A">>, <<"A", "C">> }

InitIndex ==
    /\ pc = "down"
    /\ ParseIdle
    /\ SearchIdle
    /\ TurnIdle
    /\ IndexIdle
    /\ RestIdle

other_vars == <<parse_vars, search_vars, turn_vars, rest_vars>>

\* RAGService.__init__ up to the call of _load_or_build_index
start_process ==
    /\ pc = "down"
    /\ catalogue' \in Catalogues
    /\ offline_mode' \in BOOLEAN
    /\ live_dim' \in LiveDims
    /\ embedding_dim' = 0
    /\ normalized_embeddings' = <<>>
    /\ embeddings' = <<>>
    /\ builds' = <<>>
    /\ reading' = NoReading
    /\ pc' = "loading"
    /\ UNCHANGED <<store, app_state, embedding_lock, other_vars>>

\* RAGService._load_or_build_index up to the call of _build_index: the
\* dimension and the vectors are taken over once the count matches, before
\* the manifest is compared
load_or_build_index ==
    /\ pc = "loading"
    /\ LET both == store.vectors # <<>> /\ store.manifest # <<>>
           counted == both /\ Len(store.vectors) = Len(catalogue)
           accepted == counted /\ store.manifest = catalogue
       IN  /\ embedding_dim' = IF counted THEN store.vectors[1].dim ELSE embedding_dim
           /\ normalized_embeddings' =
                    IF counted THEN store.vectors ELSE normalized_embeddings
           /\ pc' = IF accepted THEN "ready" ELSE "building"
    /\ UNCHANGED <<catalogue, offline_mode, live_dim, embeddings, store, app_state,
                   embedding_lock, builds, reading, other_vars>>

\* RAGService._build_index, one pass of the loop; a failed _embed_text
\* leaves the constructor and the process does not start
embed_item ==
    /\ pc = "building"
    /\ Len(embeddings) < Len(catalogue)
    /\ \E answered \in BOOLEAN :
        LET vector == embed_text(catalogue[Len(embeddings) + 1], offline_mode,
                                 embedding_dim, live_dim, answered)
        IN  IF vector.ok
            THEN /\ embeddings' = Append(embeddings, vector.vector)
                 /\ embedding_dim' = vector.dim
                 /\ UNCHANGED pc
            ELSE /\ pc' = "down"
                 /\ UNCHANGED <<embeddings, embedding_dim>>
    /\ UNCHANGED <<catalogue, offline_mode, live_dim, normalized_embeddings, store,
                   app_state, embedding_lock, builds, reading, other_vars>>

\* RAGService._build_index, lines 171-173
finish_build ==
    /\ pc = "building"
    /\ Len(embeddings) = Len(catalogue)
    /\ embedding_dim' = embeddings[1].dim
    /\ normalized_embeddings' = embeddings
    /\ pc' = "built"
    /\ UNCHANGED <<catalogue, offline_mode, live_dim, embeddings, store, app_state,
                   embedding_lock, builds, reading, other_vars>>

\* RAGService._persist_embeddings: np.save
persist_vectors ==
    /\ pc = "built"
    /\ store' = [store EXCEPT !.vectors = embeddings]
    /\ pc' = "saved"
    /\ UNCHANGED <<catalogue, offline_mode, live_dim, embedding_dim, normalized_embeddings,
                   embeddings, app_state, embedding_lock, builds, reading, other_vars>>

\* RAGService._persist_embeddings: json.dump of the manifest
persist_manifest ==
    /\ pc = "saved"
    /\ store' = [store EXCEPT !.manifest = catalogue]
    /\ builds' = Append(builds, store')
    /\ pc' = "ready"
    /\ UNCHANGED <<catalogue, offline_mode, live_dim, embedding_dim, normalized_embeddings,
                   embeddings, app_state, embedding_lock, reading, other_vars>>

\* a service handed to the handlers before its constructor is through
publish_before_built ==
    /\ pc # "down"
    /\ app_state = "unset"
    /\ app_state' = "set"
    /\ UNCHANGED <<pc, catalogue, offline_mode, live_dim, embedding_dim,
                   normalized_embeddings, embeddings, store, embedding_lock, builds,
                   reading, other_vars>>

\* main.lifespan: the constructed service is stored in app.state
publish ==
    /\ pc = "ready"
    /\ app_state = "unset"
    /\ app_state' = "set"
    /\ UNCHANGED <<pc, catalogue, offline_mode, live_dim, embedding_dim,
                   normalized_embeddings, embeddings, store, embedding_lock, builds,
                   reading, other_vars>>

\* RAGService.search, lines 303-311, from a handler that found the service
\* in app.state: the query is embedded and scored against the index
index_search ==
    /\ app_state = "set"
    /\ \E answered \in BOOLEAN :
        LET vector == embed_text(QueryText, offline_mode, embedding_dim, live_dim, answered)
        IN  reading' = IF normalized_embeddings = <<>> \/ ~vector.ok
                       THEN [NoReading EXCEPT !.status = "raise"]
                       ELSE [status |-> "ok", query |-> vector.vector,
                             index |-> normalized_embeddings, dim |-> embedding_dim]
    /\ UNCHANGED <<pc, catalogue, offline_mode, live_dim, embedding_dim,
                   normalized_embeddings, embeddings, store, app_state, embedding_lock,
                   builds, other_vars>>

\* the process ends (a kill, a power loss, a shutdown): memory is lost, the
\* files stay as they are
crash ==
    /\ pc # "down"
    /\ pc' = "down"
    /\ app_state' = "unset"
    /\ UNCHANGED <<catalogue, offline_mode, live_dim, embedding_dim, normalized_embeddings,
                   embeddings, store, embedding_lock, builds, reading, other_vars>>

NextIndex ==
    \/ start_process \/ load_or_build_index \/ embed_item \/ finish_build
    \/ persist_vectors \/ persist_manifest \/ publish \/ index_search \/ crash

SpecIndex == InitIndex /\ [][NextIndex]_vars

\* a rebuild that starts from a service without its embedding dimension
rebuild_forgetting_dimension ==
    /\ pc = "ready"
    /\ Len(builds) < MaxBuilds
    /\ embeddings' = <<>>
    /\ embedding_dim' = 0
    /\ pc' = "building"
    /\ UNCHANGED <<catalogue, offline_mode, live_dim, normalized_embeddings,
                   store, app_state, embedding_lock, builds, reading, other_vars>>

\* a second call of _build_index on the running service
rebuild ==
    /\ pc = "ready"
    /\ Len(builds) < MaxBuilds
    /\ embeddings' = <<>>
    /\ pc' = "building"
    /\ UNCHANGED <<catalogue, offline_mode, live_dim, embedding_dim, normalized_embeddings,
                   store, app_state, embedding_lock, builds, reading, other_vars>>

NextRebuild == NextIndex \/ rebuild

SpecRebuild == InitIndex /\ [][NextRebuild]_vars

\* -------------------------------------------- specification: an embedding
\* One call of RAGService.search on a service whose index is loaded, with
\* the attempts of _embed_text under its retry decorator as steps.
InitEmbed ==
    /\ pc = "called"
    /\ query \in SearchQueries
    /\ user_preferences \in TurnPreferences
    /\ top_k = 0
    /\ semantic \in TurnSimilarities
    /\ retrieval_result = NoRetrieval
    /\ ParseIdle
    /\ TurnIdle
    /\ catalogue = [i \in 1..Len(Catalogue) |-> Catalogue[i].sku]
    /\ offline_mode \in BOOLEAN
    /\ live_dim \in LiveDims
    /\ embedding_dim \in LiveDims
    /\ normalized_embeddings = <<>>
    /\ embeddings = <<>>
    /\ store = NoStore
    /\ app_state = "set"
    /\ embedding_lock = "free"
    /\ builds = <<>>
    /\ reading = NoReading
    /\ attempts = 0
    /\ embedding_model_name \in EmbeddingModels
    /\ StreamIdle
    /\ ProviderIdle
    /\ SessionIdle

\* RAGService.search, lines 298-307
search_begin ==
    /\ pc = "called"
    /\ IF embedding_calls(query, user_preferences) = 0
       THEN /\ retrieval_result' = RaisedRetrieval
            /\ pc' = "searched"
       ELSE /\ pc' = "embedding"
            /\ UNCHANGED retrieval_result
    /\ UNCHANGED <<query, user_preferences, top_k, semantic, parse_vars, turn_vars,
                   index_vars, rest_vars>>

\* One attempt of RAGService._embed_text.  first, second: what the first
\* and, after an invalid model name, the second call of genai.embed_content
\* does.  The attempt that raises is counted, and the last one allowed lets
\* the RetryError out of search.
embed_attempt ==
    /\ pc = "embedding"
    /\ \E first \in {"vector", "invalid", "error"}, second \in {"vector", "error"} :
        LET switched == /\ ~offline_mode
                        /\ first = "invalid"
                        /\ embedding_model_name # DefaultEmbeddingModel
            answer == IF switched THEN second ELSE first
            returned == offline_mode \/ (answer = "vector" /\ live_dim = embedding_dim)
        IN  /\ embed_calls' = embed_calls + (IF offline_mode THEN 0
                                             ELSE IF switched THEN 2 ELSE 1)
            /\ embedding_model_name' =
                    IF switched THEN DefaultEmbeddingModel ELSE embedding_model_name
            /\ IF returned
               THEN /\ pc' = "scoring"
                    /\ UNCHANGED <<attempts, retrieval_result>>
               ELSE /\ attempts' = attempts + 1
                    /\ IF stop_after_attempt(attempts + 1)
                       THEN /\ retrieval_result' = RaisedRetrieval
                            /\ pc' = "searched"
                       ELSE UNCHANGED <<pc, retrieval_result>>
    /\ UNCHANGED <<query, user_preferences, top_k, semantic, parse_vars, endpoint, history,
                   stream, events, closed, response, metrics, failure, index_vars,
                   late_vars>>

\* RAGService.search, lines 311-331
search_end ==
    /\ pc = "scoring"
    /\ retrieval_result' = search(query, user_preferences, top_k, semantic, TRUE)
    /\ pc' = "searched"
    /\ UNCHANGED <<query, user_preferences, top_k, semantic, parse_vars, turn_vars,
                   index_vars, rest_vars>>

NextEmbed == search_begin \/ embed_attempt \/ search_end

SpecEmbed == InitEmbed /\ [][NextEmbed]_vars

\* ---------------------------------------------- specification: a stream
\* GeminiProvider.stream_response with a live model: _worker runs in an
\* executor thread and hands the chunks' texts to the consumer loop through
\* the queue; the consumer can be closed at its yield at any time.
\* asyncio.Queue(): maxsize 0, a queue that is never full
QueueMaxSize == 0

full(q) == QueueMaxSize > 0 /\ Len(q) >= QueueMaxSize

\* the texts of the chunks of a backend stream; "": a chunk without text
ChunkTexts == {"a", "b", ""}

Backends == [chunks : SeqsUpTo(ChunkTexts, MaxChunks), ends : BOOLEAN]

stream_others ==
    <<parse_vars, search_vars, turn_vars, index_vars, embed_vars, provider_vars,
      session_vars>>

InitStream ==
    /\ pc = "stream"
    /\ ParseIdle
    /\ SearchIdle
    /\ TurnIdle
    /\ IndexIdle
    /\ EmbedIdle
    /\ ProviderIdle
    /\ SessionIdle
    /\ backend \in Backends
    /\ queue = <<>>
    /\ worker = "scheduled"
    /\ consumer = "waiting"
    /\ received = <<>>

\* loop.call_soon_threadsafe(queue.put_nowait, item)
put_nowait(q, item) == IF full(q) THEN q ELSE Append(q, item)

\* _worker, lines 78-94: the chat is started and the message sent, at once
\* or by the retry on the fallback model; or the start fails and the end
\* marker is put; or the retry, made inside the except clause, raises and
\* nothing catches it
worker_start ==
    /\ worker = "scheduled"
    /\ \E outcome \in {"started", "failed", "retry_raised"} :
        CASE outcome = "started" ->
                /\ worker' = "reading"
                /\ UNCHANGED queue
          [] outcome = "failed" ->
                /\ queue' = put_nowait(queue, None)
                /\ worker' = "returned"
          [] OTHER ->
                /\ worker' = "raised"
                /\ UNCHANGED queue
    /\ UNCHANGED <<pc, backend, consumer, received, stream_others>>

\* _worker, lines 96-99: one pass of the loop over the backend stream
worker_next ==
    /\ worker = "reading"
    /\ backend.chunks # <<>>
    /\ queue' = IF Head(backend.chunks) # ""
                THEN put_nowait(queue, Head(backend.chunks)) ELSE queue
    /\ backend' = [backend EXCEPT !.chunks = Tail(@)]
    /\ UNCHANGED <<pc, worker, consumer, received, stream_others>>

\* _worker, line 100: the stream is over and the end marker is put; a
\* backend stream that raises while it is read ends the worker without one
worker_end ==
    /\ worker = "reading"
    /\ backend.chunks = <<>>
    /\ IF backend.ends
       THEN /\ queue' = put_nowait(queue, None)
            /\ worker' = "returned"
       ELSE /\ worker' = "raised"
            /\ UNCHANGED queue
    /\ UNCHANGED <<pc, backend, consumer, received, stream_others>>

\* stream_response, lines 104-108: one pass of the consumer loop
consumer_get ==
    /\ consumer = "waiting"
    /\ queue # <<>>
    /\ queue' = Tail(queue)
    /\ IF Head(queue) = None
       THEN /\ consumer' = "finished"
            /\ UNCHANGED received
       ELSE /\ received' = Append(received, Head(queue))
            /\ UNCHANGED consumer
    /\ UNCHANGED <<pc, backend, worker, stream_others>>

\* the generator is closed while it waits or is suspended at its yield: the
\* caller's task was cancelled or its loop was left by an exception
consumer_cancel ==
    /\ consumer = "waiting"
    /\ consumer' = "cancelled"
    /\ UNCHANGED <<pc, backend, queue, worker, received, stream_others>>

NextStream == worker_start \/ worker_next \/ worker_end \/ consumer_get \/ consumer_cancel

SpecStream == InitStream /\ [][NextStream]_vars

\* --------------------------------------------- specification: the provider
\* The life of one live GeminiProvider: generate calls run _generate_sync
\* and stream calls run _worker, each in a thread of the default executor,
\* so several are in flight at a time and their steps interleave.
provider_others ==
    <<parse_vars, search_vars, turn_vars, index_vars, embed_vars, stream_vars,
      session_vars>>

\* the handle a call uses
handle_of(kind) == IF kind = "generate" THEN "json" ELSE "streaming"

\* GeminiProvider.__init__ with an API key: both handles are built for the
\* configured model
InitProvider ==
    /\ pc = "serving"
    /\ ParseIdle
    /\ SearchIdle
    /\ TurnIdle
    /\ IndexIdle
    /\ EmbedIdle
    /\ StreamIdle
    /\ SessionIdle
    /\ model_name \in LlmModels
    /\ handles = [h \in {"json", "streaming"} |-> model_name]
    /\ downgrades = [h \in {"json", "streaming"} |-> 0]
    /\ calls = [c \in 1..MaxCalls |-> NoCall]

\* generate_response / stream_response hand the call to the executor
call_begin(c) ==
    /\ calls[c].at = "idle"
    /\ \E kind \in {"generate", "stream"} :
        calls' = [calls EXCEPT ![c] = [kind |-> kind, at |-> "sending", result |-> "none"]]
    /\ UNCHANGED <<pc, model_name, handles, downgrades, provider_others>>

\* _generate_sync, lines 120-135, and _worker, lines 78-94, up to the call
\* of _initialise_model: the message is sent, and quota exhaustion (or, in
\* _generate_sync, an empty text) leads to the fallback when _model_name is
\* not the fallback's
call_send(c) ==
    /\ calls[c].at = "sending"
    /\ \E outcome \in {"text", "empty", "exhausted", "error"} :
        /\ outcome = "empty" => calls[c].kind = "generate"
        /\ calls' = [calls EXCEPT ![c] =
                CASE outcome \in {"exhausted", "empty"} /\ model_name # FallbackModelName ->
                        [@ EXCEPT !.at = "downgrading"]
                  [] outcome \in {"text", "empty"} -> [@ EXCEPT !.at = "idle", !.result = outcome]
                  [] OTHER -> [@ EXCEPT !.at = "idle", !.result = "failed"]]
    /\ UNCHANGED <<pc, model_name, handles, downgrades, provider_others>>

\* _initialise_model(self._fallback_model_name) and the assignment of the
\* handle
call_downgrade(c) ==
    /\ calls[c].at = "downgrading"
    /\ model_name' = FallbackModelName
    /\ handles' = [handles EXCEPT ![handle_of(calls[c].kind)] = FallbackModelName]
    /\ downgrades' = [downgrades EXCEPT ![handle_of(calls[c].kind)] = @ + 1]
    /\ calls' = [calls EXCEPT ![c].at = "resending"]
    /\ UNCHANGED <<pc, provider_others>>

\* the message is sent again on the new handle; what it raises is the
\* call's failure
call_resend(c) ==
    /\ calls[c].at = "resending"
    /\ \E outcome \in {"text", "empty", "exhausted", "error"} :
        /\ outcome = "empty" => calls[c].kind = "generate"
        /\ calls' = [calls EXCEPT ![c] =
                IF outcome \in {"text", "empty"}
                THEN [@ EXCEPT !.at = "idle", !.result = outcome]
                ELSE [@ EXCEPT !.at = "idle", !.result = "failed"]]
    /\ UNCHANGED <<pc, model_name, handles, downgrades, provider_others>>

NextProvider ==
    \E c \in 1..MaxCalls :
        call_begin(c) \/ call_send(c) \/ call_downgrade(c) \/ call_resend(c)

SpecProvider == InitProvider /\ [][NextProvider]_vars

\* ------------------------------------------------------------ properties
\* (the interpreter)
Parsed == pc = "parsed"

Returned == Parsed /\ llm_result.status = "ok"

Skus(products) == {products[i].sku : i \in 1..Len(products)}

\* the payload a strict or salvage decode of the raw text yields
Decodes == stage(raw_text) \in {"strict", "salvage"}

Decoded == IF Range(raw_text.toks) \cap PayloadTokens # {} THEN raw_text.payload ELSE NoPayload

WellShaped(payload) ==
    /\ payload.reply.shape # "num"
    /\ payload.reasoning # "num"
    /\ payload.recs.shape # "num"
    /\ \A i \in 1..Len(payload.recs.items) : payload.recs.items[i].isObj

Trimmed(sku) == IF sku = " B " THEN "B" ELSE sku

\* the positions of the entries that carry an identifier, ascending
Identified(items) == {i \in 1..Len(items) : Trimmed(items[i].sku) # ""}

NthIdentified(items, k) ==
    CHOOSE i \in Identified(items) : Cardinality({j \in Identified(items) : j < i}) = k - 1

DisplayName(products, sku) ==
    products[CHOOSE i \in 1..Len(products) :
                products[i].sku = sku /\ \A j \in 1..(i - 1) : products[j].sku # sku].name

\* recommendation rec is entry item as the model stated it: its identifier,
\* its rationale, its name or, the name omitted, the display name of the
\* context item with that identifier
StatesEntry(rec, item, products) ==
    /\ rec.sku = Trimmed(item.sku)
    /\ rec.rationale = item.rationale
    /\ item.name # <<>> => rec.name = item.name
    /\ (item.name = <<>> /\ rec.sku \in Skus(products)) =>
            rec.name = DisplayName(products, rec.sku)

\* C2 (as claimed): the interpreter returns at most as many recommendations
\* as there are context items, each with the identifier of a context item.
C2_RecsWithinContext ==
    Returned =>
        /\ Len(llm_result.recommendations) <= Len(context_products)
        /\ \A i \in 1..Len(llm_result.recommendations) :
                llm_result.recommendations[i].sku \in Skus(context_products)

C5_QuestionNoRecommendations ==
    (/\ Parsed
     /\ "?" \in Range(raw_text.toks)
     /\ Range(raw_text.toks) \cap PayloadTokens = {}) =>
        /\ llm_result.status = "ok"
        /\ llm_result.recommendations = <<>>

\* C6 (as claimed): a reply that holds an explicit denial phrase comes with
\* no recommendation.
C6_DenialNoRecommendations ==
    (Returned /\ "deny" \in Range(llm_result.reply)) =>
        llm_result.recommendations = <<>>

\* C7: a structured decode with a non-empty reply that is neither a question
\* nor a denial, no recommendation and a non-empty context returns the first
\* min(2, n) context items, in context order, each with its prior
\* explanation or else the generic sentence as rationale.
NoDenial(reply) ==
    /\ "deny" \notin Range(reply)
    /\ ~("soft" \in Range(reply) /\ "neg" \in Range(reply))

C7_Applies ==
    /\ Parsed /\ Decodes /\ WellShaped(Decoded)
    /\ Decoded.reply.shape = "str"
    /\ Strip(Decoded.reply.toks) # <<>>
    /\ Identified(Decoded.recs.items) = {}
    /\ "?" \notin Range(Decoded.reply.toks)
    /\ NoDenial(Decoded.reply.toks)
    /\ context_products # <<>>

C7_FallbackTopTwo ==
    C7_Applies =>
        /\ llm_result.status = "ok"
        /\ Len(llm_result.recommendations) = Min(2, Len(context_products))
        /\ \A i \in 1..Len(llm_result.recommendations) :
              LET rec == llm_result.recommendations[i]
                  item == context_products[i]
              IN  /\ rec.sku = item.sku
                  /\ rec.name = item.name
                  /\ rec.rationale = IF item.explanation # None THEN item.explanation
                                     ELSE "Top match based on your requirements."

\* C7 witness: three context items, the first with a prior explanation, the
\* second without
C7_Witness ==
    /\ C7_Applies
    /\ Len(context_products) = 3
    /\ context_products[1].explanation = "prior"
    /\ Len(llm_result.recommendations) = 2
    /\ llm_result.recommendations[2].rationale = "Top match based on your requirements."

\* C9 (as claimed): the interpreter never raises.
C9_NeverRaises == Parsed => llm_result.status = "ok"


\* (the merge)
Merged == pc = "merged"

\* C3: the merge returns only items whose identifier is in the retrieved
\* set, and the empty list when the result carries no recommendation.
C3_MergeWithinRetrieved ==
    Merged =>
        /\ \A i \in 1..Len(enriched) : enriched[i].sku \in Skus(context_products)
        /\ llm_result.recommendations = <<>> => enriched = <<>>

\* C3 witness: a result that recommends a retrieved item and one that was
\* not retrieved; the merge returns the first and drops the second
C3_Witness ==
    /\ Merged
    /\ \E i \in 1..Len(llm_result.recommendations) :
            llm_result.recommendations[i].sku \notin Skus(context_products)
    /\ \E i \in 1..Len(llm_result.recommendations) :
            llm_result.recommendations[i].sku \in Skus(context_products)
    /\ enriched # <<>>
    /\ Len(enriched) < Len(llm_result.recommendations)

\* (the search)
Searched == pc = "searched" /\ retrieval_result.status = "ok"

\* the constraints the caller's preferences make active, on one item
SatisfiesPreferences(product, preferences) ==
    /\ preferences.price_min.kind = "num" => product.price >= preferences.price_min.value
    /\ preferences.price_max.kind = "num" => product.price <= preferences.price_max.value
    /\ preferences.vendor.kind = "str" =>
            Contains(Lower(product.vendor), Lower(preferences.vendor.text))
    /\ preferences.gpu.kind = "str" =>
            Contains(Lower(product.gpu), Lower(preferences.gpu.text))
    /\ preferences.family.kind = "str" =>
            Contains(Lower(product.family), Lower(preferences.family.text))

NonIncreasing(products) ==
    \A i \in 1..(Len(products) - 1) : products[i].similarity >= products[i + 1].similarity

\* C1 (as claimed): search returns at most top_k items, each passing every
\* active constraint, ordered by non-increasing combined score.
C1_SearchContract ==
    Searched =>
        /\ Len(retrieval_result.products) <= top_k
        /\ \A i \in 1..Len(retrieval_result.products) :
                SatisfiesPreferences(retrieval_result.products[i], user_preferences)
        /\ NonIncreasing(retrieval_result.products)

\* what holds of search for every top_k, and the size for a top_k of 1 or more
SearchContractPositiveK ==
    Searched =>
        /\ top_k >= 1 => Len(retrieval_result.products) <= top_k
        /\ \A i \in 1..Len(retrieval_result.products) :
                SatisfiesPreferences(retrieval_result.products[i], user_preferences)
        /\ NonIncreasing(retrieval_result.products)

\* (a turn)
TurnDone == pc = "done"

\* the ceilings a message states: N in "under N", "max N", "N or less"
StatedCeilings(text) ==
    {Amount(text[i + 1]) : i \in {j \in 1..(Len(text) - 1) :
            text[j] \in CeilingWords /\ text[j + 1] \in {"1500", "2000"}}}
    \cup
    {Amount(text[i]) : i \in {j \in 1..(Len(text) - 1) :
            /\ text[j] \in {"1500", "2000"}
            /\ \/ text[j + 1] \in TrailingWords
               \/ j + 2 <= Len(text) /\ text[j + 1] = "or" /\ text[j + 2] \in TrailingWords}}

TurnProducts == Range(retrieval_result.products) \cup Range(enriched) \cup Range(response.products)

\* C8 (as claimed): when the caller's preferences carry no price ceiling and
\* the message states one, every item the search returned and every product
\* of the turn's result is priced within it; when the caller supplies a
\* ceiling, that one is the search's ceiling.
C8_TextCeilingApplied ==
    retrieval_result.status = "ok" =>
        /\ user_preferences.price_max.kind \in {"absent", "none"} =>
                \A N \in StatedCeilings(query) : \A p \in TurnProducts : p.price <= N
        /\ user_preferences.price_max.kind = "num" =>
                /\ retrieval_result.applied_filters.price_range.bounded
                /\ retrieval_result.applied_filters.price_range.high
                        = user_preferences.price_max.value

\* the same, for preferences that do not hold the key price_max at all
TextCeilingAppliedWhenKeyAbsent ==
    retrieval_result.status = "ok" =>
        /\ user_preferences.price_max.kind = "absent" =>
                \A N \in StatedCeilings(query) : \A p \in TurnProducts : p.price <= N
        /\ user_preferences.price_max.kind = "num" =>
                /\ retrieval_result.applied_filters.price_range.bounded
                /\ retrieval_result.applied_filters.price_range.high
                        = user_preferences.price_max.value

\* C10 (as claimed): a turn in which an internal error was raised ends with
\* the generic apologetic reply and no recommendations: a normal response
\* of post_message, an error event of websocket_stream.
C10_ErrorsEndInApology ==
    (TurnDone /\ failure # "none") =>
        /\ endpoint = "post" =>
                /\ response.status = 200
                /\ response.reply = ErrorMessage
                /\ response.products = <<>>
        /\ endpoint = "ws" =>
                /\ events # <<>>
                /\ events[Len(events)] = Event("error", ErrorMessage, <<>>)

\* the streaming half of it
StreamErrorsEndInApology ==
    (TurnDone /\ failure # "none" /\ endpoint = "ws") =>
        /\ events # <<>>
        /\ events[Len(events)] = Event("error", ErrorMessage, <<>>)
        /\ \A i \in 1..Len(events) : events[i].type # "complete"

\* ---------------------------------------------- specification: a session
\* Two turns, of one session or of two, served by one process. A handler
\* is a coroutine of the event loop: from one await to the next it runs
\* alone, and at an await any other coroutine may run.
MaxHistoryMessages == 6

MaxEarlier == 13

\* the numbers of messages a session holds before the two turns: none, or
\* about as many as the trimming keeps
EarlierLengths == {0} \cup ((MaxEarlier - 2)..MaxEarlier)

EarlierMessage(i) ==
    [role |-> IF i % 2 = 1 THEN "user" ELSE "assistant", content |-> "earlier"]

Earlier(n) == [i \in 1..n |-> EarlierMessage(i)]

\* what each turn's client sends
TurnContent(t) == IF t = 1 THEN "one" ELSE "two"

\* MetricsService.log_message: the message is appended to the session's list
log_message(all, session_id, message) ==
    [all EXCEPT ![session_id] = Append(@, message)]

\* MetricsService.get_session_history: a copy of the session's list
get_session_history(all, session_id) == all[session_id]

\* chat._trim_history: the last `limit` messages
trim_history(messages, limit) ==
    IF limit <= 0 \/ Len(messages) <= limit
    THEN messages
    ELSE SubSeq(messages, Len(messages) - limit + 1, Len(messages))

\* GeminiProvider._prepare_gemini_history: all messages but the last become
\* the chat's history, the last one's content becomes the message sent, with
\* the context block behind it when there is one
prepare_gemini_history(messages, context_block) ==
    [history |-> [i \in 1..(Len(messages) - 1) |->
                    [role |-> IF messages[i].role = "assistant"
                              THEN "model" ELSE messages[i].role,
                     parts |-> messages[i].content]],
     final_message |-> [content |-> messages[Len(messages)].content,
                        context_block |-> context_block]]

\* a handler that awaits between log_message and get_session_history
loop_released_after_log_message(t) == 0

\* post_message line 140 / websocket_stream line 265: no await follows
\* log_message, the coroutine keeps the event loop
loop_after_log_message(t) == t

InitSession ==
    /\ pc = "sessions"
    /\ ParseIdle
    /\ SearchIdle
    /\ TurnIdle
    /\ IndexIdle
    /\ EmbedIdle
    /\ StreamIdle
    /\ ProviderIdle
    /\ \E n \in EarlierLengths :
        sessions = [s \in SessionIds |-> IF s = "s1" THEN Earlier(n) ELSE <<>>]
    /\ \E s \in SessionIds :
        turns = [t \in TurnIds |->
                    [NoTurn EXCEPT !.pc = "arrived",
                                   !.session_id = IF t = 1 THEN "s1" ELSE s,
                                   !.content = TurnContent(t)]]
    /\ loop = 0

session_others ==
    <<pc, parse_vars, search_vars, turn_vars, index_vars, embed_vars, stream_vars,
      provider_vars>>

\* post_message lines 139-140, websocket_stream lines 264-265: the handler
\* is resumed with the request and logs the user message
log_user_message(t) ==
    /\ turns[t].pc = "arrived"
    /\ loop = 0
    /\ sessions' = log_message(sessions, turns[t].session_id,
                               prepare_user_message(turns[t].content))
    /\ turns' = [turns EXCEPT ![t].pc = "logged"]
    /\ loop' = loop_after_log_message(t)
    /\ UNCHANGED session_others

\* post_message lines 142-149, websocket_stream lines 266-274: the history
\* is read and trimmed, then the handler awaits the search
read_history(t) ==
    /\ turns[t].pc = "logged"
    /\ loop \in {0, t}
    /\ turns' = [turns EXCEPT
                    ![t].trimmed_history =
                        trim_history(get_session_history(sessions, turns[t].session_id),
                                     MaxHistoryMessages * 2),
                    ![t].pc = "retrieving"]
    /\ loop' = 0
    /\ UNCHANGED <<sessions, session_others>>

\* post_message line 157, websocket_stream line 291: after the search the
\* trimmed history is handed to generation, which the handler awaits
hand_to_generation(t) ==
    /\ turns[t].pc = "retrieving"
    /\ loop = 0
    /\ \E context_block \in BOOLEAN :
        turns' = [turns EXCEPT
                    ![t].handed = prepare_gemini_history(turns[t].trimmed_history,
                                                         context_block),
                    ![t].pc = "generating"]
    /\ UNCHANGED <<sessions, loop, session_others>>

\* post_message lines 165-166, websocket_stream lines 319-320: the reply
\* is logged as the assistant message
log_assistant_message(t) ==
    /\ turns[t].pc = "generating"
    /\ loop = 0
    /\ sessions' = log_message(sessions, turns[t].session_id,
                               prepare_assistant_message("reply"))
    /\ turns' = [turns EXCEPT ![t].pc = "done"]
    /\ UNCHANGED <<loop, session_others>>

\* the turn ends without a reply: the search or the generation raised
turn_raises(t) ==
    /\ turns[t].pc \in {"retrieving", "generating"}
    /\ loop = 0
    /\ turns' = [turns EXCEPT ![t].pc = "failed"]
    /\ UNCHANGED <<sessions, loop, session_others>>

NextSession ==
    \E t \in TurnIds :
        \/ log_user_message(t)
        \/ read_history(t)
        \/ hand_to_generation(t)
        \/ log_assistant_message(t)
        \/ turn_raises(t)

SpecSession == InitSession /\ [][NextSession]_vars

\* ---------------------------------------------------- properties: the index
IndexReturned == pc = "ready"

\* the running process took its index from the files
IndexLoaded == IndexReturned /\ builds = <<>> /\ embeddings = <<>>

AcceptanceConditions ==
    /\ store.vectors # <<>>
    /\ store.manifest # <<>>
    /\ Len(store.vectors) = Len(catalogue)
    /\ store.manifest = catalogue

AlignedWithCatalogue ==
    /\ Len(normalized_embeddings) = Len(catalogue)
    /\ \A i \in 1..Len(catalogue) : normalized_embeddings[i].sku = catalogue[i]

\* C11: once _load_or_build_index has returned, a persisted index was
\* accepted only with both files present, as many vectors as catalogue items
\* and a manifest equal to the catalogue's sku order, every other case
\* embedded every item again, and the index in memory holds one vector per
\* catalogue item, the i-th vector being the i-th item's.
C11_IndexAlignedAfterLoad ==
    IndexReturned =>
        /\ IndexLoaded => AcceptanceConditions
        /\ ~IndexLoaded => Len(embeddings) = Len(catalogue)
        /\ AlignedWithCatalogue

\* C12: a search that scores a query scores it against index vectors of
\* the backend that embedded the query: a digest vector is never compared
\* with live vectors, nor a live vector with digest vectors.
C12_NoMixedBackends ==
    reading.status = "ok" =>
        \A i \in 1..Len(reading.index) : reading.index[i].backend = reading.query.backend

\* C13: with the digest backend, every build of one running service for its
\* catalogue persists the same vectors and the same manifest as the build
\* before it, whatever dimension the first build found and left behind.
C13_RebuildsPersistTheSame ==
    offline_mode =>
        \A i \in 1..Len(builds) : \A j \in 1..Len(builds) : builds[i] = builds[j]

\* two digest builds, the first of which ran with a dimension taken over
\* from a rejected persisted index
C13_Witness ==
    /\ offline_mode
    /\ Len(builds) = 2
    /\ pc = "ready"
    /\ builds[1].vectors[1].dim # HashDim
    /\ builds[2].manifest = catalogue

\* ----------------------------------------------- properties: an embedding
\* C14 as stated: one _embed_text call makes at most StopAfterAttempt calls
\* of the embedding backend, and when every attempt failed the search raises
\* and returns nothing.
C14_AtMostFiveBackendCalls ==
    /\ embed_calls <= StopAfterAttempt
    /\ attempts = StopAfterAttempt => (pc = "searched" /\ retrieval_result = RaisedRetrieval)

\* C14, amended: one _embed_text call makes at most StopAfterAttempt
\* attempts, a vector is returned by the last of them at the latest, the
\* attempts call the backend at most once each but for the one that falls
\* back from an invalid model name and calls it twice, and when every
\* attempt failed the search raises and returns nothing.
C14_BoundedAttemptsThenFailure ==
    /\ attempts <= StopAfterAttempt
    /\ pc = "scoring" => attempts < StopAfterAttempt
    /\ embed_calls <= StopAfterAttempt + 1
    /\ attempts = StopAfterAttempt => (pc = "searched" /\ retrieval_result = RaisedRetrieval)

\* every attempt failed, the first of them after falling back to the
\* default model
C14_Witness ==
    /\ attempts = StopAfterAttempt
    /\ embed_calls = StopAfterAttempt + 1
    /\ pc = "searched"
    /\ retrieval_result = RaisedRetrieval

\* ---------------------------------------- properties: a disconnected stream
\* the client went away while a fragment was being sent
DisconnectedMidStream == closed = "client" /\ stream.chunks # <<>>

Roles(messages) == [i \in 1..Len(messages) |-> messages[i].role]

EventTypes == [i \in 1..Len(events) |-> events[i].type]

\* C15: when the client disconnects while fragments are emitted, the turn
\* is over without a parsed and merged result, without recorded
\* recommendations, without an assistant message in the history and without a
\* completion event, and the retrieval latency and the generation latency are
\* recorded once each.
C15_DisconnectSkipsFinalStage ==
    DisconnectedMidStream =>
        /\ pc = "done"
        /\ llm_result = NoResult
        /\ enriched = <<>>
        /\ metrics.recommended = <<>>
        /\ Roles(history) = <<"user">>
        /\ "complete" \notin Range(EventTypes)
        /\ metrics.retrieval_latency = 1
        /\ metrics.llm_latency = 1

\* the client went away after the first fragment had been sent
C15_Witness ==
    /\ DisconnectedMidStream
    /\ pc = "done"
    /\ "chunk" \in Range(EventTypes)
    /\ Len(raw_text.toks) >= 2

\* ------------------------------------------------- properties: a stream
\* the texts in a queue, the end marker left out
Fragments(q) == SelectSeq(q, LAMBDA item : item # None)

\* C16: once the consumer of stream_response is cancelled, the worker reads
\* nothing more of the backend stream and puts nothing more into the queue.
C16_CancelStopsWorker ==
    [][(consumer = "cancelled" /\ worker = "reading") =>
            (backend' = backend /\ Fragments(queue') = Fragments(queue))]_vars

\* C17: the queue between worker and consumer has a fixed capacity that the
\* fragments put and not yet taken never exceed, the worker waiting while
\* the queue is full; stated for every capacity a stream of the model can
\* tell from none, that is, below the number of chunks of the longest stream.
C17_QueueBounded == Len(Fragments(queue)) < MaxChunks

\* ---------------------------------------------- properties: the provider
\* C18: over the life of one provider each handle is set to the fallback
\* model at most once, whatever generate and stream calls meet quota
\* exhaustion: exhaustion met after the downgrade downgrades nothing again.
C18_AtMostOneDowngrade == \A h \in {"json", "streaming"} : downgrades[h] <= 1

\* ------------------------------------------ properties: builds and searches
Building == pc \in {"building", "built", "saved"}

\* C19 as stated: a build and its persisting run under the embedding lock,
\* one at a time, and a search reads a whole index.
C19_BuildHoldsLock ==
    /\ Building => embedding_lock = "held"
    /\ reading.status = "ok" =>
            /\ Len(reading.index) = Len(catalogue)
            /\ \A i \in 1..Len(reading.index) : reading.index[i].dim = reading.dim

\* C19, amended: handlers find the service only once its constructor, which
\* alone builds, has returned, so no search runs while a build does, and a
\* search reads an index with one vector per catalogue item, each of the
\* embedding dimension read with it.
C19_SearchReadsBuiltIndex ==
    /\ app_state = "set" => ~Building /\ pc = "ready"
    /\ reading.status = "ok" =>
            /\ Len(reading.index) = Len(catalogue)
            /\ \A i \in 1..Len(reading.index) : reading.index[i].dim = reading.dim

\* a search of an index that this run of the process built
C19_Witness ==
    /\ reading.status = "ok"
    /\ builds # <<>>
    /\ Len(reading.index) = 2
    /\ app_state = "set"

\* ------------------------------------------- properties: rejected inputs
BlankQuery == Strip(query) = <<>>

MalformedPreferences ==
    user_preferences.price_min.kind = "bad" \/ user_preferences.price_max.kind = "bad"

RejectedAsInputError ==
    IF endpoint = "post" THEN response.status = 400 ELSE closed = "1008"

\* C20: a turn whose query is blank or whose price bound is not a number
\* ends as an input error, without a call of the embedding backend, without
\* a generation and without a message appended to the history.
C20_InputErrorsRejectedFirst ==
    (TurnDone /\ (BlankQuery \/ MalformedPreferences)) =>
        /\ RejectedAsInputError
        /\ embed_calls = 0
        /\ llm_result = NoResult
        /\ metrics.llm_latency = 0
        /\ history = <<>>

\* the part of C20 that holds: such a turn reaches neither the embedding
\* backend nor the generation
InputErrorsReachNoBackend ==
    (TurnDone /\ (BlankQuery \/ MalformedPreferences)) =>
        /\ embed_calls = 0
        /\ llm_result = NoResult
        /\ metrics.llm_latency = 0

\* ------------------------------------------ properties: index integrity
\* the last search raised, and the query vector of the live backend has
\* another length than the vectors of the index
SearchMetDimensionMismatch ==
    /\ app_state = "set"
    /\ reading.status = "raise"
    /\ ~offline_mode
    /\ embedding_dim # 0
    /\ embedding_dim # live_dim

\* C21: a stale manifest is never accepted but rebuilt from, and a search
\* that meets a query vector of another dimension than the index's does not
\* fail with the index left as it is: a rebuild runs.
C21_IntegrityViolationRebuilds ==
    /\ IndexLoaded => store.manifest = catalogue
    /\ SearchMetDimensionMismatch => Building

\* the part of C21 that holds: a persisted index whose manifest or count
\* does not fit the catalogue is never the index of a service that returned
StaleIndexNeverAccepted == IndexLoaded => AcceptanceConditions

\* --------------------------------------- properties: synthesized results
\* the recommendations returned were made from the context items, not taken
\* from the model's output: the fallback after every decode failed, the
\* fallback of the plain-text path, or the fallback of a decoded object
\* without an identified entry
SynthesizedFromContext ==
    /\ Returned
    /\ llm_result.recommendations # <<>>
    /\ \/ stage(raw_text) = "fallback"
       \/ stage(raw_text) = "plain" /\ llm_result.reasoning = "Fallback recommendations"
       \/ Decodes /\ Identified(Decoded.recs.items) = {}

\* C22: recommendations synthesized from the context items come with a
\* reply that holds neither a question mark nor an explicit denial phrase.
C22_SynthesizedOnlyWhenNotWithheld ==
    SynthesizedFromContext =>
        /\ "?" \notin Range(llm_result.reply)
        /\ "deny" \notin Range(llm_result.reply)

\* the part of C22 that holds: the fallback of a decoded object is guarded
DecodedFallbackGuarded ==
    (SynthesizedFromContext /\ Decodes) =>
        /\ "?" \notin Range(llm_result.reply)
        /\ "deny" \notin Range(llm_result.reply)

\* ------------------------------------------ properties: commentary
\* the raw text is one serialised object with words of commentary before
\* or after it
CommentaryTokens == {"w", "?"}

SurroundedByCommentary ==
    /\ Cardinality({i \in 1..Len(raw_text.toks) : raw_text.toks[i] \in PayloadTokens}) = 1
    /\ "obj" \in Range(raw_text.toks)
    /\ Range(raw_text.toks) \subseteq {"obj"} \cup StripWhitespace \cup CommentaryTokens
    /\ Range(raw_text.toks) \cap CommentaryTokens # {}

\* C23: a valid structured object with commentary before or after it is
\* decoded by the salvage stage, and the result is the reply and the
\* recommendations of that object.
C23_CommentarySalvaged ==
    (Parsed /\ SurroundedByCommentary /\ WellShaped(raw_text.payload)) =>
        /\ stage(raw_text) = "salvage"
        /\ llm_result = decode_payload(raw_text.payload, context_products)

\* what the salvage stage does decode: an object with nothing but white
\* space around it, some of which json.loads does not skip
SalvageDecodesWhitespaceOnly ==
    (Parsed /\ stage(raw_text) = "salvage") =>
        /\ Range(raw_text.toks) \cap CommentaryTokens = {}
        /\ llm_result = decode_payload(Decoded, context_products)

\* ------------------------------------------ properties: the price filter
\* the skus a search returned
ReturnedSkus == Skus(retrieval_result.products)

\* nothing but the price range is constrained and the default top_k keeps
\* every passing item
OnlyPriceConstrained ==
    /\ top_k = 0
    /\ retrieval_result.applied_filters.vendor = ""
    /\ retrieval_result.applied_filters.gpu = ""
    /\ retrieval_result.applied_filters.family = ""

\* C24: with a price range, an item priced below the floor is not returned,
\* an item priced exactly at an explicit ceiling is not returned, and an item
\* priced exactly at the floor (and below the ceiling) is returned.
C24_FloorInclusiveCeilingExclusive ==
    (Searched /\ retrieval_result.applied_filters.price_range.active) =>
        LET range == retrieval_result.applied_filters.price_range
        IN  \A i \in 1..Len(Catalogue) :
                LET product == Catalogue[i]
                IN  /\ product.price < range.low => product.sku \notin ReturnedSkus
                    /\ (range.bounded /\ product.price = range.high) =>
                            product.sku \notin ReturnedSkus
                    /\ (/\ OnlyPriceConstrained
                        /\ product.price = range.low
                        /\ range.bounded => product.price < range.high) =>
                            product.sku \in ReturnedSkus

\* the part of C24 that holds: the floor is inclusive
FloorInclusive ==
    (Searched /\ retrieval_result.applied_filters.price_range.active) =>
        LET range == retrieval_result.applied_filters.price_range
        IN  \A i \in 1..Len(Catalogue) :
                LET product == Catalogue[i]
                IN  /\ product.price < range.low => product.sku \notin ReturnedSkus
                    /\ (/\ OnlyPriceConstrained
                        /\ product.price = range.low
                        /\ range.bounded => product.price <= range.high) =>
                            product.sku \in ReturnedSkus

\* ------------------------------------------------ properties: ties
CatalogueIndex(sku) == CHOOSE i \in 1..Len(Catalogue) : Catalogue[i].sku = sku

\* the catalogue items that pass the filters of the search and were not
\* returned
LeftOut ==
    {i \in 1..Len(Catalogue) :
        /\ passes_filters(Catalogue[i], retrieval_result.applied_filters)
        /\ Catalogue[i].sku \notin ReturnedSkus}

\* C25: of two returned items with equal combined score the one earlier in
\* the catalogue comes first, and an item left out by the truncation scores
\* no higher than any returned item and, at equal score, is later in the
\* catalogue.
C25_TiesInCatalogueOrder ==
    Searched =>
        LET products == retrieval_result.products
        IN  /\ \A i \in 1..Len(products) : \A j \in (i + 1)..Len(products) :
                    products[i].similarity = products[j].similarity =>
                        CatalogueIndex(products[i].sku) < CatalogueIndex(products[j].sku)
            /\ \A q \in LeftOut : \A i \in 1..Len(products) :
                    LET score == combined_score(query, q, semantic)
                    IN  /\ score <= products[i].similarity
                        /\ score = products[i].similarity =>
                                q > CatalogueIndex(products[i].sku)

\* a tie inside the result and a tie across the truncation boundary
C25_Witness ==
    /\ Searched
    /\ Len(retrieval_result.products) = 2
    /\ top_k = 2
    /\ retrieval_result.products[1].similarity = retrieval_result.products[2].similarity
    /\ \E q \in LeftOut :
            combined_score(query, q, semantic) = retrieval_result.products[2].similarity

\* ------------------------------------- properties: the order of a stream
\* the texts of the chunk events sent, in the order sent
SentFragments ==
    LET chunk_events == SelectSeq(events, LAMBDA event : event.type = "chunk")
    IN  [i \in 1..Len(chunk_events) |-> chunk_events[i].text]

StreamCompleted == closed = "1000"

\* C26: in a streaming turn that completes, the events are one metadata
\* event, then chunk events, then one completion event and nothing after
\* it; each chunk event sent is the next fragment of the producer; the
\* interpreter ran on the concatenation of the fragments in that order, and
\* its result is the completion's.
C26_StreamEventsInOrder ==
    /\ [](StreamCompleted =>
            /\ Len(events) >= 2
            /\ EventTypes[1] = "metadata"
            /\ EventTypes[Len(events)] = "complete"
            /\ \A i \in 2..(Len(events) - 1) : EventTypes[i] = "chunk"
            /\ stream.chunks = <<>>
            /\ raw_text.toks = Concat(SentFragments)
            /\ llm_result = parse_response_text(raw_text, retrieval_result.products)
            /\ events[Len(events)].text = llm_result.reply)
    /\ [][(pc = "streaming" /\ pc' = "streaming" /\ events' # events) =>
            /\ events' = Append(events, Event("chunk", Head(stream.chunks), <<>>))
            /\ stream'.chunks = Tail(stream.chunks)]_vars

\* a completed turn of two fragments or more
C26_Witness ==
    /\ StreamCompleted
    /\ Len(SentFragments) >= 2
    /\ SentFragments[1] # SentFragments[2]
    /\ llm_result.recommendations # <<>>

\* --------------------------------------- properties: the end of a stream
WorkerOver == worker \in {"returned", "raised"}

\* C27: a worker that is over has put the end marker, which waits in the
\* queue or has ended the consumer loop, so that a consumer that goes on
\* taking items terminates.
C27_WorkerAlwaysPutsMarker ==
    WorkerOver => (None \in Range(queue) \/ consumer = "finished")

\* the part of C27 that holds: the worker that returns has put the marker
ReturningWorkerPutsMarker ==
    worker = "returned" => (None \in Range(queue) \/ consumer = "finished")

\* ------------------------------------ properties: the two files of a build
\* the skus whose vectors the vector file holds, in the file's order
PersistedSkus == [i \in 1..Len(store.vectors) |-> store.vectors[i].sku]

\* C28: an index taken from the files was built from the catalogue the
\* process runs with: the vector file holds the vectors of the skus that the
\* manifest names, in the manifest's order, which is the catalogue's order,
\* wherever an earlier build was interrupted.
C28_AcceptedIndexBuiltFromCatalogue ==
    IndexLoaded => (PersistedSkus = store.manifest /\ PersistedSkus = catalogue)

\* the part of C28 that holds: the manifest of an accepted index is the
\* catalogue's sku order
AcceptedManifestIsCatalogue == IndexLoaded => store.manifest = catalogue

\* ------------------------------------------- properties: concurrent turns
Handed(t) == turns[t].pc \in {"generating", "done"}

SameSession == turns[1].session_id = turns[2].session_id

\* C29: the history a turn hands to generation ends with the user message
\* of that turn, also when the other turn of the same session logs its
\* messages while this turn is under way: the message sent to the model is
\* the turn's own, and the other turn's message is no later than the chat
\* history before it.
C29_HistoryEndsWithOwnMessage ==
    \A t \in TurnIds :
        /\ turns[t].pc \in {"retrieving", "generating", "done", "failed"} =>
            /\ turns[t].trimmed_history # <<>>
            /\ turns[t].trimmed_history[Len(turns[t].trimmed_history)]
                   = prepare_user_message(turns[t].content)
        /\ Handed(t) => turns[t].handed.final_message.content = turns[t].content

\* both turns of one session handed their histories over, the second one's
\* message was logged while the first was under way, and the histories
\* were trimmed
C29_Witness ==
    /\ SameSession
    /\ Handed(1) /\ Handed(2)
    /\ Len(sessions["s1"]) > MaxHistoryMessages * 2
    /\ Len(turns[2].handed.history) = MaxHistoryMessages * 2 - 1
    /\ turns[2].handed.history[Len(turns[2].handed.history)].parts = TurnContent(1)

\* ------------------------------------------- properties: the merged list
\* the recommendations that select a retrieved item, in the result's order
Selecting ==
    SelectSeq(llm_result.recommendations,
              LAMBDA recommendation : recommendation.sku \in Skus(context_products))

\* C30: the merged list holds no retrieved item twice and is no longer than
\* the retrieved list, also when several recommendations name one sku, and
\* the item at each place carries the rationale of the recommendation that
\* put it there.
C30_EachItemOnceWithItsRationale ==
    Merged =>
        /\ \A i, j \in 1..Len(enriched) : enriched[i].sku = enriched[j].sku => i = j
        /\ Len(enriched) <= Len(context_products)
        /\ Len(enriched) = Len(Selecting)
        /\ \A i \in 1..Len(enriched) : enriched[i].explanation = Selecting[i].rationale

\* the part of C30 that holds: with no sku named twice by the result, each
\* retrieved item is returned at most once, with the rationale of its
\* recommendation
DistinctRecommendationsMergeOnce ==
    (Merged /\ \A i, j \in 1..Len(llm_result.recommendations) :
                llm_result.recommendations[i].sku = llm_result.recommendations[j].sku
                    => i = j)
        => /\ \A i, j \in 1..Len(enriched) : enriched[i].sku = enriched[j].sku => i = j
           /\ Len(enriched) = Len(Selecting)
           /\ \A i \in 1..Len(enriched) : enriched[i].explanation = Selecting[i].rationale

====
